---- MODULE Spec2Model ----
(***************************************************************************)
(* DiaryML longitudinal-insight engine: the writing-streak calculator, the *)
(* mood trend analyzer, the project momentum tracker, the trigger          *)
(* correlator and the productivity scorer of backend/analytics.py and      *)
(* backend/temporal_intelligence.py, over the record store of              *)
(* backend/database.py.                                                    *)
(*                                                                         *)
(* Time is counted in ticks, TicksPerDay to a calendar day: a timestamp is *)
(* a tick, a date is a day number, a timedelta of n days is n*TicksPerDay. *)
(* Emotion scores are exact tenths (6 is 0.6); means are compared by cross *)
(* multiplication, so no rounding of binary floating point is modelled.    *)
(***************************************************************************)
EXTENDS Integers, Sequences, FiniteSets, TLC

VARIABLES
    now,        \* the wall clock read by datetime.now(), in ticks
    entries,    \* rows of table entries, in ORDER BY timestamp DESC order
    timeline,   \* rows of get_mood_timeline: one per (date, emotion)
    mentions,   \* project name -> timestamps of the entries mentioning it
    project_rows, \* project name -> its row of table projects
    report,     \* the report returned by the request served last
    analytics_instance,    \* the global _analytics_instance of analytics.py
    temporal_intelligence  \* the global _temporal_intelligence

vars == <<now, entries, timeline, mentions, project_rows, report,
          analytics_instance, temporal_intelligence>>

\* the two module-level singletons
engines == <<analytics_instance, temporal_intelligence>>

\* the value None of a global that holds no engine yet
NoEngine == <<>>

----------------------------------------------------------------------------
(* Bounds of the model *)

TicksPerDay == 2
StreakMaxDay == 5
StreakMaxEntries == 4
StreakClockDays == 2

----------------------------------------------------------------------------
(* Time: datetime, date and timedelta *)

\* datetime.date(): the calendar day of a timestamp
DateOf(t) == t \div TicksPerDay

\* timedelta(days=n)
Days(n) == n * TicksPerDay

\* timedelta.days: the whole days of a difference of two timestamps
DeltaDays(d) == d \div TicksPerDay

MaxOf(S) == CHOOSE m \in S : \A x \in S : x <= m
MinOf(S) == CHOOSE m \in S : \A x \in S : m <= x

\* sorted(S, reverse=True) of a set of dates
RECURSIVE SortedDesc(_)
SortedDesc(S) ==
    IF S = {} THEN <<>>
    ELSE LET m == MaxOf(S) IN <<m>> \o SortedDesc(S \ {m})

NoReport == [kind |-> "none"]

\* Python's None
None == "None"

\* an entry without rows of table moods; otherwise the moods of an entry are
\* the sequence of its [emotion, score] rows, emotions distinct
NoMoods == <<>>

----------------------------------------------------------------------------
(* The record store *)

\* a row of table entries: its timestamp, the scores of its rows of table
\* moods, and the keywords _extract_keywords finds in its content
EntryRow(ts, moods, keywords) ==
    [timestamp |-> ts, moods |-> moods, keywords |-> keywords]

\* INSERT INTO entries, kept in the order of idx_entries_timestamp read backwards
InsertEntry(rows, row) ==
    LET k == Cardinality({i \in 1..Len(rows) : rows[i].timestamp > row.timestamp})
    IN  SubSeq(rows, 1, k) \o <<row>> \o SubSeq(rows, k + 1, Len(rows))

\* DiaryDatabase.add_entry(content, timestamp=ts)
AddEntry(ts, moods, keywords) ==
    /\ entries' = InsertEntry(entries, EntryRow(ts, moods, keywords))
    /\ report' = NoReport
    /\ UNCHANGED <<now, timeline, mentions, project_rows, engines>>

RecentLimit == 1000

\* table projects without rows
NoProjects == [p \in {} |-> 0]

\* the row add_project inserts at time `clock`; link_calls is no column of the
\* table but the history of the row: the number of link_project_to_entry
\* calls made for its name
ProjectRow(clock) ==
    [first_mentioned |-> clock, last_mentioned |-> clock, status |-> "active",
     link_calls |-> 1]

\* the project_id of a mention that is the id of no project
NoRowId == "0"

\* line 326: cursor.lastrowid of the upsert of add_project(name) on its fresh
\* connection: the id of the row inserted, which the name stands for, and 0
\* when the row was there and the upsert took the update branch, as sqlite3
\* sets lastrowid from sqlite3_last_insert_rowid() and no row was inserted on
\* the connection
LastRowId(rows, name) == IF name \in DOMAIN rows THEN NoRowId ELSE name

\* lines 330-336: INSERT INTO project_mentions of an entry of timestamp ts
\* for each name of `names`, with the project_id add_project returned; `found`
\* holds, by project, the timestamps of the entries whose mention is joined
\* to the project, ascending. A mention of project_id 0 is joined to none.
LinkedMentions(found, rows, names, ts) ==
    [q \in DOMAIN found \cup names |->
        IF \E name \in names : LastRowId(rows, name) = q
        THEN <<ts>>
        ELSE found[q]]

\* DiaryDatabase.add_project(name) at time `clock`, for every name of `names`:
\* INSERT ... ON CONFLICT(name) DO UPDATE SET last_mentioned, status
AddProjects(rows, names, clock) ==
    [q \in DOMAIN rows \cup names |->
        IF q \notin names THEN rows[q]
        ELSE IF q \in DOMAIN rows
             THEN [rows[q] EXCEPT !.last_mentioned = clock, !.status = "active",
                                  !.link_calls = @ + 1]
             ELSE ProjectRow(clock)]

\* DiaryDatabase.get_recent_entries(limit): ORDER BY timestamp DESC LIMIT ?
GetRecentEntries(limit) ==
    SubSeq(entries, 1, IF Len(entries) < limit THEN Len(entries) ELSE limit)

----------------------------------------------------------------------------
(* Streak Calculator: DeepAnalytics.get_writing_streak *)

\* the loop of lines 51-56: count while the date is the one looked for, stop
\* at a date more than one day before it
RECURSIVE StreakWalk(_, _, _, _)
StreakWalk(dates, i, check_date, count) ==
    IF i > Len(dates) THEN count
    ELSE IF dates[i] = check_date
         THEN StreakWalk(dates, i + 1, check_date - 1, count + 1)
    ELSE IF dates[i] < check_date - 1 THEN count
    ELSE StreakWalk(dates, i + 1, check_date, count)

\* the same loop without the anchor test of line 49
CurrentStreakNoAnchor(dates, today) ==
    IF dates # <<>> THEN StreakWalk(dates, 1, dates[1], 0) ELSE 0

\* lines 45-56
CurrentStreak(dates, today) ==
    IF dates # <<>> /\ (dates[1] = today \/ dates[1] = today - 1)
    THEN StreakWalk(dates, 1, dates[1], 0)
    ELSE 0

\* the loop of lines 62-67: (longest_streak, temp_streak) after index i
RECURSIVE LongestScan(_, _, _, _)
LongestScan(dates, i, longest, temp) ==
    IF i > Len(dates) - 1 THEN <<longest, temp>>
    ELSE IF dates[i] - dates[i + 1] = 1
         THEN LongestScan(dates, i + 1,
                          IF temp + 1 > longest THEN temp + 1 ELSE longest, temp + 1)
    ELSE LongestScan(dates, i + 1, longest, 1)

\* the scan with temp_streak never reset at a gap
RECURSIVE LongestScanNoReset(_, _, _, _)
LongestScanNoReset(dates, i, longest, temp) ==
    IF i > Len(dates) - 1 THEN <<longest, temp>>
    ELSE IF dates[i] - dates[i + 1] = 1
         THEN LongestScanNoReset(dates, i + 1,
                          IF temp + 1 > longest THEN temp + 1 ELSE longest, temp + 1)
    ELSE LongestScanNoReset(dates, i + 1, longest, temp)

LongestStreakNoReset(dates) ==
    LET r == LongestScanNoReset(dates, 1, 0, 1)
    IN  IF r[2] > r[1] THEN r[2] ELSE r[1]

\* the scan without the closing max of line 69
LongestStreakNoFinalMax(dates) == LongestScan(dates, 1, 0, 1)[1]

\* lines 58-69
LongestStreak(dates) ==
    LET r == LongestScan(dates, 1, 0, 1)
    IN  IF r[2] > r[1] THEN r[2] ELSE r[1]

\* lines 35-42: the distinct dates of the fetched entries, most recent first
EntryDates(fetched) ==
    SortedDesc({DateOf(fetched[i].timestamp) : i \in 1..Len(fetched)})

\* the trailing days without the day `days` days before today
InTrailingDaysExclusive(date, today, days) == date > today - days

\* lines 76-77: d >= today - timedelta(days=days)
InTrailingDays(date, today, days) == date >= today - days

\* the dict get_writing_streak returns
WritingStreak(fetched, today) ==
    IF fetched = <<>>
    THEN [kind |-> "streak", current_streak |-> 0, longest_streak |-> 0,
          last_entry_date |-> None, total_entries |-> 0]
    ELSE LET dates == EntryDates(fetched) IN
         [kind |-> "streak",
          current_streak |-> CurrentStreak(dates, today),
          longest_streak |-> LongestStreak(dates),
          last_entry_date |-> dates[1],
          total_entries |-> Len(fetched),
          entries_this_week |->
              Cardinality({i \in 1..Len(dates) : InTrailingDays(dates[i], today, 7)}),
          entries_this_month |->
              Cardinality({i \in 1..Len(dates) : InTrailingDays(dates[i], today, 30)})]

\* a request for the writing streak
GetWritingStreak ==
    /\ report' = WritingStreak(GetRecentEntries(RecentLimit), DateOf(now))
    /\ UNCHANGED <<now, entries, timeline, mentions, project_rows, engines>>

----------------------------------------------------------------------------
(* The writing-streak specification: entries are written with any timestamp *)
(* of the horizon, the clock runs over its last days, and the streak is     *)
(* requested at any time.                                                   *)

StreakTicks == 0..(Days(StreakMaxDay + 1) - 1)

StreakClockStart == Days(StreakMaxDay + 1 - StreakClockDays)

StreakInit ==
    /\ now = StreakClockStart
    /\ entries = <<>>
    /\ timeline = <<>>
    /\ mentions = <<>>
    /\ project_rows = NoProjects
    /\ analytics_instance = NoEngine
    /\ temporal_intelligence = NoEngine
    /\ report = NoReport

StreakAddEntry ==
    /\ Len(entries) < StreakMaxEntries
    /\ \E ts \in StreakTicks : AddEntry(ts, NoMoods, <<>>)

StreakTick ==
    /\ now + 1 \in StreakTicks
    /\ now' = now + 1
    /\ report' = NoReport
    /\ UNCHANGED <<entries, timeline, mentions, project_rows, engines>>

StreakNext == StreakAddEntry \/ StreakTick \/ GetWritingStreak

SpecStreak == StreakInit /\ [][StreakNext]_vars

\* the distinct dates of the entries in the store
StoreDates == {DateOf(entries[i].timestamp) : i \in 1..Len(entries)}

\* the number of dates of the calendar-consecutive run of D that ends at d
RunEndingAt(D, d) ==
    MaxOf({n \in 1..Cardinality(D) : \A k \in 0..(n - 1) : (d - k) \in D})

\* the length of the longest run of calendar-consecutive dates of D
LongestRun(D) == MaxOf({RunEndingAt(D, d) : d \in D})

\* C1: whatever the entry dates and today, the streak report has
\* current_streak <= longest_streak.
C1_CurrentAtMostLongest ==
    report.kind = "streak" => report.current_streak <= report.longest_streak

C1_Witness ==
    /\ report.kind = "streak"
    /\ report.current_streak = 1
    /\ report.longest_streak = 2

\* C2: for a non-empty store, longest_streak is the length of the longest run
\* of calendar-consecutive dates among the distinct entry dates (1 for a
\* single date).
C2_LongestIsLongestRun ==
    (report.kind = "streak" /\ entries # <<>>) =>
        report.longest_streak = LongestRun(StoreDates)

C2_Witness ==
    /\ report.kind = "streak"
    /\ Cardinality(StoreDates) = 4
    /\ report.longest_streak = 2
    /\ StoreDates = {0, 1, 3, 4}

\* C3: current_streak is 0 unless the most recent entry date is today or
\* yesterday; when it is, current_streak is the number of dates of the
\* unbroken run of consecutive days ending at the most recent entry date;
\* dates {D, D-1, D-2, D-5} with D today give current 3 and longest 3.
C3_CurrentIsRunAtLatest ==
    (report.kind = "streak" /\ entries # <<>>) =>
        LET today == DateOf(now)
            latest == MaxOf(StoreDates)
        IN  /\ (latest # today /\ latest # today - 1) => report.current_streak = 0
            /\ (latest = today \/ latest = today - 1) =>
                   report.current_streak = RunEndingAt(StoreDates, latest)
            /\ StoreDates = {today, today - 1, today - 2, today - 5} =>
                   (report.current_streak = 3 /\ report.longest_streak = 3)

C3_Witness ==
    /\ report.kind = "streak"
    /\ LET today == DateOf(now)
       IN  StoreDates = {today, today - 1, today - 2, today - 5}
    /\ report.current_streak = 3

----------------------------------------------------------------------------
(* Project Momentum Tracker: TemporalIntelligence.track_project_momentum *)

\* sorted(entries, key=timestamp) of a sequence of timestamps (stable)
InsertAsc(s, x) ==
    LET k == Cardinality({i \in 1..Len(s) : s[i] <= x})
    IN  SubSeq(s, 1, k) \o <<x>> \o SubSeq(s, k + 1, Len(s))

RECURSIVE SortedAsc(_)
SortedAsc(s) ==
    IF s = <<>> THEN <<>>
    ELSE InsertAsc(SortedAsc(SubSeq(s, 1, Len(s) - 1)), s[Len(s)])

\* The k-th datetime.now() of one request.  rd = [start, jump, adv]: the clock
\* shows rd.start up to the read before rd.jump and rd.start + rd.adv from
\* read rd.jump on (the wall clock may advance while a request is served).
ClockAt(k, rd) == IF k >= rd.jump THEN rd.start + rd.adv ELSE rd.start

SteadyClock(t) == [start |-> t, jump |-> 1, adv |-> 0]

\* a cutoff of exactly `days` days compared with > : the boundary is left out
IsRecentExclusive(ts, days, clock) == ts > clock - Days(days)

\* _is_recent(timestamp_str, days), its datetime.now() showing `clock`
IsRecent(ts, days, clock) == ts >= clock - Days(days)

RecentDays == 14
StallDays == 10
DefaultWindow == 90

\* days_active without the floor of timedelta.days: rounded up to whole days
DaysActiveCeil(first, last) ==
    LET d == DeltaDays(last - first + TicksPerDay - 1) IN IF d = 0 THEN 1 ELSE d

\* days_active without its `or 1`
DaysActiveUnguarded(first, last) == DeltaDays(last - first)

\* line 262: (last_mention - first_mention).days or 1
DaysActive(first, last) ==
    LET d == DeltaDays(last - first) IN IF d = 0 THEN 1 ELSE d

\* the classification with recent >= older counted as accelerating
MomentumStatusGeq(days_active, recent, older) ==
    IF days_active > StallDays /\ recent = 0 THEN "stalled"
    ELSE IF recent >= older THEN "accelerating"
    ELSE "consistent"

\* lines 269-277
MomentumStatus(days_active, recent, older) ==
    IF days_active > StallDays /\ recent = 0 THEN "stalled"
    ELSE IF recent > older THEN "accelerating"
    ELSE "consistent"

\* line 265: the entries counted in recent_mentions, by their place in
\* sorted_entries; read i of the clock is the test of entry i
RecentMentions(sorted_entries, rd) ==
    {i \in 1..Len(sorted_entries) :
        IsRecent(sorted_entries[i], RecentDays, ClockAt(i, rd))}

\* line 266: the entries counted in older_mentions; reads n+2i-1 and n+2i of
\* the clock are the two tests of entry i
OlderMentions(sorted_entries, days_active, rd) ==
    LET n == Len(sorted_entries) IN
    {i \in 1..n :
        /\ ~IsRecent(sorted_entries[i], RecentDays, ClockAt(n + 2 * i - 1, rd))
        /\ IsRecent(sorted_entries[i], days_active, ClockAt(n + 2 * i, rd))}

\* _calculate_project_momentum(entries, project_name): stamps are the
\* timestamps of the entries, rd the clock its datetime.now() reads show;
\* read 3n+1 is the one of lines 271-277.
CalculateProjectMomentum(stamps, rd) ==
    LET n == Len(stamps) IN
    IF n < 2
    THEN [status |-> "insufficient_data", mention_count |-> n]
    ELSE
      LET sorted_entries == SortedAsc(stamps)
          first_mention == sorted_entries[1]
          last_mention == sorted_entries[n]
          days_active == DaysActive(first_mention, last_mention)
          recent_mentions == Cardinality(RecentMentions(sorted_entries, rd))
          older_mentions ==
              Cardinality(OlderMentions(sorted_entries, days_active, rd))
      IN  [status |-> MomentumStatus(days_active, recent_mentions, older_mentions),
           mention_count |-> n,
           days_active |-> days_active,
           days_since_last_mention |->
               DeltaDays(ClockAt(3 * n + 1, rd) - last_mention),
           recent_activity |-> recent_mentions,
           frequency |-> <<n, IF days_active > 1 THEN days_active ELSE 1>>]

\* the number of datetime.now() reads of _calculate_project_momentum
MomentumReads(n) == IF n < 2 THEN 0 ELSE 3 * n + 1

\* _get_project_entries(project_name, days): the project's entries with
\* timestamp >= cutoff, ORDER BY e.timestamp ASC
GetProjectEntries(p, days, clock) ==
    SelectSeq(mentions[p], LAMBDA ts : ts >= clock - Days(days))

\* a sequence of the elements of a finite set
RECURSIVE SetToSeq(_)
SetToSeq(S) ==
    IF S = {} THEN <<>>
    ELSE LET x == CHOOSE y \in S : TRUE IN <<x>> \o SetToSeq(S \ {x})

\* the names of S, latest last_mentioned first
RECURSIVE ByLastMentioned(_)
ByLastMentioned(S) ==
    IF S = {} THEN <<>>
    ELSE LET p == CHOOSE x \in S : \A y \in S :
                      project_rows[y].last_mentioned <= project_rows[x].last_mentioned
         IN  <<p>> \o ByLastMentioned(S \ {p})

\* get_active_projects(): the rows of table projects WHERE status = 'active'
\* ORDER BY last_mentioned DESC, by their names
GetActiveProjects ==
    ByLastMentioned({p \in DOMAIN project_rows : project_rows[p].status = "active"})

\* lines 225-236: momentum_data, one dict per project with entries in the window
RECURSIVE MomentumData(_, _, _)
MomentumData(projects, days, rd) ==
    IF projects = <<>> THEN <<>>
    ELSE LET p == Head(projects)
             ents == GetProjectEntries(p, days, rd.start)
             rest == MomentumData(Tail(projects), days, rd)
         IN  IF ents = <<>> THEN rest
             ELSE <<[project_name |-> p,
                     momentum |-> CalculateProjectMomentum(ents, rd)]>> \o rest

WithStatus(data, st) == SelectSeq(data, LAMBDA m : m.momentum.status = st)

\* what a report records of its request: the argument and the first and the
\* last reading of the clock
Request(days, rd) ==
    [days |-> days, clock |-> [start |-> rd.start, adv |-> rd.adv]]

\* the dict track_project_momentum(days) returns, with its request
TrackProjectMomentumReport(days, rd) ==
    LET projects == GetActiveProjects IN
    IF projects = <<>>
    THEN [kind |-> "momentum", status |-> "no_projects",
          request |-> Request(days, rd)]
    ELSE LET momentum_data == MomentumData(projects, days, rd) IN
         [kind |-> "momentum", status |-> "success",
          request |-> Request(days, rd),
          momentum_data |-> momentum_data,
          total_projects |-> Len(momentum_data),
          stalled |-> WithStatus(momentum_data, "stalled"),
          accelerating |-> WithStatus(momentum_data, "accelerating"),
          consistent |-> WithStatus(momentum_data, "consistent")]

\* a request for the project momentum over the last `days` days, served while
\* the clock stands still (adv = 0) or advances once by `adv`
TrackProjectMomentum(days, jump, adv) ==
    /\ report' = TrackProjectMomentumReport(days,
                     [start |-> now, jump |-> jump, adv |-> adv])
    /\ now' = now + adv
    /\ UNCHANGED <<entries, timeline, mentions, project_rows, engines>>

\* add_entry(content, timestamp=ts) followed by link_project_to_entry(id, p)
\* for the project the entry mentions
WriteEntryMentioning(p, ts) ==
    /\ entries' = InsertEntry(entries, EntryRow(ts, NoMoods, <<>>))
    /\ mentions' = LinkedMentions(mentions, project_rows, {p}, ts)
    /\ project_rows' = AddProjects(project_rows, {p}, now)
    /\ report' = NoReport
    /\ UNCHANGED <<now, timeline, engines>>

----------------------------------------------------------------------------
(* The project-momentum specification: entries mentioning a project are     *)
(* written on the days of MentionDays, at any time of day; the clock runs    *)
(* over day MomentumToday; the momentum is requested over the default window *)
(* or a short one.                                                           *)

MaxMentions == 3
MomentumToday == 25
ShortWindow == 20

MentionDays == {1, 10, 11, 12, 20, MomentumToday}

MentionTicks == {Days(d) + h : d \in MentionDays, h \in 0..(TicksPerDay - 1)}

MomentumProjects == {"novel", "garden"}

MomentumWindows == {ShortWindow, DefaultWindow}

MomentumClock == Days(MomentumToday)..(Days(MomentumToday + 1) - 1)

NoMentions == [p \in {} |-> <<>>]

MomentumInit ==
    /\ now = Days(MomentumToday)
    /\ entries = <<>>
    /\ timeline = <<>>
    /\ mentions = NoMentions
    /\ project_rows = NoProjects
    /\ analytics_instance = NoEngine
    /\ temporal_intelligence = NoEngine
    /\ report = NoReport

MomentumWrite ==
    \E p \in MomentumProjects, ts \in MentionTicks :
        /\ Len(entries) < MaxMentions
        /\ WriteEntryMentioning(p, ts)

MomentumTick ==
    /\ now + 1 \in MomentumClock
    /\ now' = now + 1
    /\ report' = NoReport
    /\ UNCHANGED <<entries, timeline, mentions, project_rows, engines>>

\* no project has two joined mentions, so that _calculate_project_momentum
\* reads no clock and the request reads it once, for the cutoff
MomentumRequest ==
    \E days \in MomentumWindows : TrackProjectMomentum(days, 1, 0)

MomentumNext == MomentumWrite \/ MomentumTick \/ MomentumRequest

SpecMomentum == MomentumInit /\ [][MomentumNext]_vars

\* the entries of project p the request of the report fetched
Fetched(p) ==
    GetProjectEntries(p, report.request.days, report.request.clock.start)

\* the report is a momentum report listing project data
MomentumListed == report.kind = "momentum" /\ report.status = "success"

----------------------------------------------------------------------------
(* The momentum-calculation specification: _calculate_project_momentum is    *)
(* applied to every list of up to MaxMentions entries of the days of          *)
(* MentionDays, in the ascending order _get_project_entries hands them over   *)
(* in; the clock runs over day MomentumToday, between calculations and, once, *)
(* between two datetime.now() reads of a calculation.                         *)

HandedLists ==
    UNION {{s \in [1..n -> MentionTicks] : \A i \in 1..(n - 1) : s[i] <= s[i + 1]} :
              n \in 0..MaxMentions}

CalcInit ==
    /\ now = Days(MomentumToday)
    /\ entries = <<>>
    /\ timeline = <<>>
    /\ mentions = NoMentions
    /\ project_rows = NoProjects
    /\ analytics_instance = NoEngine
    /\ temporal_intelligence = NoEngine
    /\ report \in {[kind |-> "handed", entries |-> s] : s \in HandedLists}

\* the dict returned for the entries handed over, with the first and the last
\* reading of the clock and the entries that lines 265 and 266 counted
Calculated(stamps, rd) ==
    [kind |-> "calculated", entries |-> stamps,
     clock |-> [start |-> rd.start, adv |-> rd.adv],
     recent_mentions |-> RecentMentions(SortedAsc(stamps), rd),
     older_mentions |->
         IF Len(stamps) < 2 THEN {}
         ELSE OlderMentions(SortedAsc(stamps),
                            DaysActive(stamps[1], stamps[Len(stamps)]), rd),
     momentum |-> CalculateProjectMomentum(stamps, rd)]

\* one call of _calculate_project_momentum, served while the clock stands
\* still (adv = 0) or advances once, before its read number `jump`
CalcReturn ==
    \/ /\ report' = Calculated(report.entries, [start |-> now, jump |-> 1, adv |-> 0])
       /\ UNCHANGED <<now, entries, timeline, mentions, project_rows, engines>>
    \/ /\ now + 1 \in MomentumClock
       /\ \E jump \in 1..MomentumReads(Len(report.entries)) :
              report' = Calculated(report.entries, [start |-> now, jump |-> jump, adv |-> 1])
       /\ now' = now + 1
       /\ UNCHANGED <<entries, timeline, mentions, project_rows, engines>>

CalcTick ==
    /\ now + 1 \in MomentumClock
    /\ now' = now + 1
    /\ report' = [kind |-> "handed", entries |-> report.entries]
    /\ UNCHANGED <<entries, timeline, mentions, project_rows, engines>>

CalcNext == CalcReturn \/ CalcTick

SpecCalc == CalcInit /\ [][CalcNext]_vars

\* a momentum dict was calculated of two entries or more
MomentumCalculated == report.kind = "calculated" /\ Len(report.entries) >= 2

\* the calculation read the same time at every datetime.now()
FixedNow == report.clock.adv = 0

SeqMin(s) == MinOf({s[i] : i \in 1..Len(s)})
SeqMax(s) == MaxOf({s[i] : i \in 1..Len(s)})

\* max(1, whole days between the first and the last of the timestamps W)
WholeDaysActive(W) ==
    LET d == (SeqMax(W) - SeqMin(W)) \div TicksPerDay IN IF d < 1 THEN 1 ELSE d

\* the mentions of W at most 14 days before t
WithinFortnight(W, t) ==
    Cardinality({i \in 1..Len(W) : t - W[i] <= 14 * TicksPerDay})

\* the mentions of W more than 14 and at most days_active days before t
BeforeFortnight(W, t) ==
    Cardinality({i \in 1..Len(W) :
        /\ t - W[i] > 14 * TicksPerDay
        /\ t - W[i] <= WholeDaysActive(W) * TicksPerDay})

\* the scenario of C4: the project has two mentions, one on day 1 and one on
\* day 20, and the momentum is calculated on day 25
ScenarioC ==
    LET W == report.entries IN
    /\ report.kind = "calculated"
    /\ Len(W) = 2
    /\ DateOf(W[1]) = 1
    /\ DateOf(W[2]) = 20
    /\ DateOf(report.clock.start) = 25
    /\ DateOf(report.clock.start + report.clock.adv) = 25

\* C4 as claimed: mentions on day 1 and day 20 only, evaluated on day 25,
\* give days_active = 19, recent_mentions = 0 and status 'stalled'.
C4_ScenarioStalled ==
    ScenarioC =>
        /\ report.momentum.days_active = 19
        /\ report.momentum.recent_activity = 0
        /\ report.momentum.status = "stalled"

\* C4 as amended: mentions on day 1 and day 20 only, evaluated on day 25,
\* give days_active = 19 (18 when the day-20 mention is earlier in the day
\* than the day-1 mention), recent_mentions = 1, since day 20 lies in the
\* trailing 14 days of day 25, and status 'accelerating'.
C4_ScenarioAccelerating ==
    ScenarioC =>
        LET W == report.entries IN
        /\ report.momentum.days_active =
               IF W[2] % TicksPerDay >= W[1] % TicksPerDay THEN 19 ELSE 18
        /\ report.momentum.recent_activity = 1
        /\ report.momentum.status = "accelerating"

C4_Witness ==
    /\ ScenarioC
    /\ report.momentum.days_active = 19
    /\ report.momentum.status = "accelerating"

----------------------------------------------------------------------------
(* Mood Trend Analyzer: DeepAnalytics.analyze_temporal_mood_patterns *)

WeekDays == 7
MonthDays == 30

\* the time of day, in ticks, at which the scored entries are written
MoodEntryTick == 0

\* a row of get_mood_timeline: GROUP BY DATE(e.timestamp), m.emotion
MoodRow(date, emotion, avg_score) ==
    [date |-> date, emotion |-> emotion, avg_score |-> avg_score]

\* get_mood_timeline(days): the rows of the entries with
\* timestamp >= datetime('now', '-days days'), ORDER BY date DESC
GetMoodTimeline(days, clock) ==
    SelectSeq(timeline,
              LAMBDA r : Days(r.date) + MoodEntryTick >= clock - Days(days))

RECURSIVE SeqSum(_)
SeqSum(s) == IF s = <<>> THEN 0 ELSE Head(s) + SeqSum(Tail(s))

\* the emotions of the rows tl, in the order a dict first sees them
RECURSIVE FirstSeen(_)
FirstSeen(tl) ==
    IF tl = <<>> THEN <<>>
    ELSE LET init == FirstSeen(SubSeq(tl, 1, Len(tl) - 1))
             e == tl[Len(tl)].emotion
         IN  IF \E i \in 1..Len(init) : init[i] = e THEN init ELSE Append(init, e)

\* lines 97-102: the data points of one emotion, in timeline order
DataPoints(tl, emotion) == SelectSeq(tl, LAMBDA r : r.emotion = emotion)

\* sorted(data_points, key=date): a stable insertion sort
InsertByDate(s, r) ==
    LET k == Cardinality({i \in 1..Len(s) : s[i].date <= r.date})
    IN  SubSeq(s, 1, k) \o <<r>> \o SubSeq(s, k + 1, Len(s))

RECURSIVE SortedByDate(_)
SortedByDate(s) ==
    IF s = <<>> THEN <<>>
    ELSE InsertByDate(SortedByDate(SubSeq(s, 1, Len(s) - 1)), s[Len(s)])

\* line 108: the scores of the data points, ascending by date
ScoresByDate(points) ==
    LET sorted_points == SortedByDate(points)
    IN  [i \in 1..Len(points) |-> sorted_points[i].avg_score]

\* the split with the later half the shorter one
MidPointUp(n) == (n + 1) \div 2

\* line 110: mid = len(scores) // 2
MidPoint(n) == n \div 2

\* lines 110-119: mean(scores[mid:]) against mean(scores[:mid]) * 1.1 and
\* * 0.9, the means compared by cross multiplication
TrendLabel(scores) ==
    LET n == Len(scores)
        mid == MidPoint(n)
        n1 == mid
        n2 == n - mid
        s1 == SeqSum(SubSeq(scores, 1, mid))
        s2 == SeqSum(SubSeq(scores, mid + 1, n))
    IN  IF n1 = 0 \/ n2 = 0 THEN "StatisticsError"
        ELSE IF 10 * s2 * n1 > 11 * s1 * n2 THEN "increasing"
        ELSE IF 10 * s2 * n1 < 9 * s1 * n2 THEN "decreasing"
        ELSE "stable"

\* lines 104-119: the trend of every emotion with at least 2 data points
Trends(tl) ==
    LET emotions == {tl[i].emotion : i \in 1..Len(tl)}
        labelled == {e \in emotions : Len(DataPoints(tl, e)) >= 2}
    IN  [e \in labelled |-> TrendLabel(ScoresByDate(DataPoints(tl, e)))]

\* date.strftime("%A"): the day of the week of a date, day 0 being day 0
WeekdayOf(date) == date % 7

\* _analyze_weekly_patterns: the (weekday, emotion) pairs with >= 2 samples
\* of mean score > 0.6, as the set of the flags joined into the description
WeeklyPatterns(tl) ==
    {p \in {<<WeekdayOf(tl[i].date), tl[i].emotion>> : i \in 1..Len(tl)} :
        LET S == {i \in 1..Len(tl) :
                     WeekdayOf(tl[i].date) = p[1] /\ tl[i].emotion = p[2]}
            scores == SetToSeq(S)
            total == SeqSum([k \in 1..Len(scores) |-> tl[scores[k]].avg_score])
        IN  Cardinality(S) >= 2 /\ total > 6 * Cardinality(S)}

\* line 161: e["date"] >= cutoff compares the date string 'YYYY-MM-DD' with
\* the isoformat 'YYYY-MM-DDTHH:MM:SS...' of the cutoff: a date equal to the
\* cutoff's date is a proper prefix of it, hence smaller
DateNotBeforeCutoff(date, cutoff) == date > DateOf(cutoff)

\* the sum of the scores of emotion e over the rows
EmotionTotal(rows, e) ==
    SeqSum([i \in 1..Len(rows) |->
               IF rows[i].emotion = e THEN rows[i].avg_score ELSE 0])

\* max(emotion_totals.items(), key=value): the first key, in insertion
\* order, whose total is the maximum
FirstMax(keys, rows) ==
    LET best == MaxOf({EmotionTotal(rows, keys[i]) : i \in 1..Len(keys)})
        at == MinOf({i \in 1..Len(keys) : EmotionTotal(rows, keys[i]) = best})
    IN  keys[at]

\* _get_dominant_emotion_period(timeline, days)
DominantEmotionPeriod(tl, days, clock) ==
    LET recent == SelectSeq(tl,
                      LAMBDA r : DateNotBeforeCutoff(r.date, clock - Days(days)))
    IN  IF recent = <<>> THEN None ELSE FirstMax(FirstSeen(recent), recent)

\* the dict analyze_temporal_mood_patterns(days) returns, with its request
MoodPatterns(days, clock) ==
    LET tl == GetMoodTimeline(days, clock) IN
    IF tl = <<>>
    THEN [kind |-> "mood", request |-> Request(days, SteadyClock(clock)),
          patterns |-> <<>>, trends |-> <<>>]
    ELSE LET weekly_moods == WeeklyPatterns(tl) IN
         [kind |-> "mood", request |-> Request(days, SteadyClock(clock)),
          trends |-> Trends(tl),
          patterns |-> IF weekly_moods = {} THEN <<>>
                       ELSE <<[type |-> "weekly", description |-> weekly_moods]>>,
          dominant_emotion_last_week |-> DominantEmotionPeriod(tl, WeekDays, clock),
          dominant_emotion_last_month |-> DominantEmotionPeriod(tl, MonthDays, clock)]

\* a request for the mood patterns of the last `days` days
AnalyzeTemporalMoodPatterns(days) ==
    /\ report' = MoodPatterns(days, now)
    /\ UNCHANGED <<now, entries, timeline, mentions, project_rows, engines>>

\* add_entry on day `date` followed by add_mood with one emotion score: the
\* day gets its row of (date, emotion); where the row stands among the rows
\* of its date is the store's choice (ORDER BY date only)
RecordMood(date, emotion, score, k) ==
    /\ \A i \in 1..Len(timeline) :
           ~(timeline[i].date = date /\ timeline[i].emotion = emotion)
    /\ k >= Cardinality({i \in 1..Len(timeline) : timeline[i].date > date})
    /\ k <= Cardinality({i \in 1..Len(timeline) : timeline[i].date >= date})
    /\ timeline' = SubSeq(timeline, 1, k) \o <<MoodRow(date, emotion, score)>>
                       \o SubSeq(timeline, k + 1, Len(timeline))
    /\ report' = NoReport
    /\ UNCHANGED <<now, entries, mentions, project_rows, engines>>

----------------------------------------------------------------------------
(* The mood specification: one score per day and emotion is recorded for    *)
(* the days 0..MoodMaxDay, the clock runs over day MoodToday, and the mood   *)
(* patterns are requested over the last week or month.                       *)

MoodMaxDay == 3
MoodMaxRows == 4
MoodToday == 8

MoodEmotions == {"joy", "sadness"}

\* the scores, in tenths, an emotion is recorded with
MoodScores(emotion) == IF emotion = "joy" THEN {2, 3, 6, 7} ELSE {6}

MoodClock == Days(MoodToday)..(Days(MoodToday + 1) - 1)

MoodInit ==
    /\ now = Days(MoodToday)
    /\ entries = <<>>
    /\ timeline = <<>>
    /\ mentions = NoMentions
    /\ project_rows = NoProjects
    /\ analytics_instance = NoEngine
    /\ temporal_intelligence = NoEngine
    /\ report = NoReport

MoodRecord ==
    /\ Len(timeline) < MoodMaxRows
    /\ \E date \in 0..MoodMaxDay, emotion \in MoodEmotions, k \in 0..Len(timeline) :
           \E score \in MoodScores(emotion) : RecordMood(date, emotion, score, k)

MoodTick ==
    /\ now + 1 \in MoodClock
    /\ now' = now + 1
    /\ report' = NoReport
    /\ UNCHANGED <<entries, timeline, mentions, project_rows, engines>>

MoodRequest == \E days \in {WeekDays, MonthDays} : AnalyzeTemporalMoodPatterns(days)

MoodNext == MoodRecord \/ MoodTick \/ MoodRequest

SpecMood == MoodInit /\ [][MoodNext]_vars

\* the timeline the request of the report fetched
FetchedTimeline ==
    GetMoodTimeline(report.request.days, report.request.clock.start)

\* the report is a mood report of a non-empty timeline
MoodAnalysed == report.kind = "mood" /\ FetchedTimeline # <<>>

\* the orderings of the rows tl that are date-descending, as the store's
\* ORDER BY date DESC returns them
Reorderings(tl) ==
    LET n == Len(tl)
        perms == {f \in [1..n -> 1..n] : \A i, j \in 1..n : i # j => f[i] # f[j]}
        seqs == {[i \in 1..n |-> tl[f[i]]] : f \in perms}
    IN  {q \in seqs : \A i \in 1..(n - 1) : q[i].date >= q[i + 1].date}

\* the rows of tl dated within the period of `days` days before t
Qualifying(tl, days, t) ==
    {i \in 1..Len(tl) : tl[i].date > (t - days * TicksPerDay) \div TicksPerDay}

RECURSIVE SumOver(_, _)
SumOver(tl, I) ==
    IF I = {} THEN 0
    ELSE LET i == CHOOSE k \in I : TRUE IN tl[i].avg_score + SumOver(tl, I \ {i})

\* e has the maximum summed score over the qualifying rows of tl
HasMaxTotal(tl, days, t, e) ==
    LET Q == Qualifying(tl, days, t)
        total(x) == SumOver(tl, {i \in Q : tl[i].emotion = x})
    IN  /\ \E i \in Q : tl[i].emotion = e
        /\ \A i \in Q : total(tl[i].emotion) <= total(e)

\* C6: the dominant emotion of a period has the maximum summed score over
\* the qualifying days, and every ordering of the same timeline rows yields
\* the same dominant emotion, also when two emotions tie.
C6_DominantOrderIndependent ==
    MoodAnalysed =>
        LET tl == FetchedTimeline
            t == report.request.clock.start
        IN  /\ report.dominant_emotion_last_week # None =>
                   HasMaxTotal(tl, 7, t, report.dominant_emotion_last_week)
            /\ report.dominant_emotion_last_month # None =>
                   HasMaxTotal(tl, 30, t, report.dominant_emotion_last_month)
            /\ \A q \in Reorderings(tl) :
                   /\ DominantEmotionPeriod(q, 7, t) = report.dominant_emotion_last_week
                   /\ DominantEmotionPeriod(q, 30, t) = report.dominant_emotion_last_month

\* the fetched rows of emotion e, the k-th earliest date having rank k - 1
PointsOf(tl, e) == {i \in 1..Len(tl) : tl[i].emotion = e}

RankOf(tl, I, i) == Cardinality({j \in I : tl[j].date < tl[i].date})

\* the label of C7 for the points I of tl: the floor(n/2) earliest points
\* against the others
ExpectedTrend(tl, I) ==
    LET n == Cardinality(I)
        early == {i \in I : RankOf(tl, I, i) < n \div 2}
        late == I \ early
        n1 == Cardinality(early)
        n2 == Cardinality(late)
        s1 == SumOver(tl, early)
        s2 == SumOver(tl, late)
    IN  IF s2 * n1 * 10 > s1 * n2 * 11 THEN "increasing"
        ELSE IF s2 * n1 * 10 < s1 * n2 * 9 THEN "decreasing"
        ELSE "stable"

\* C7: an emotion gets a trend exactly when it has >= 2 dated points; the
\* scores sorted ascending by date are split at len//2, neither half empty;
\* the label is 'increasing' if mean(second) > 1.1 * mean(first),
\* 'decreasing' if mean(second) < 0.9 * mean(first), else 'stable'; joy
\* averages [0.2, 0.3, 0.6, 0.7] give 'increasing'.
C7_TrendLabels ==
    MoodAnalysed =>
        LET tl == FetchedTimeline IN
        \A e \in MoodEmotions :
            LET I == PointsOf(tl, e)
                n == Cardinality(I)
            IN  /\ e \in DOMAIN report.trends <=> n >= 2
                /\ n >= 2 =>
                       /\ MidPoint(n) >= 1
                       /\ n - MidPoint(n) >= 1
                       /\ report.trends[e] = ExpectedTrend(tl, I)
                /\ (n = 4 /\ \A i \in I :
                        tl[i].avg_score = <<2, 3, 6, 7>>[RankOf(tl, I, i) + 1])
                       => report.trends[e] = "increasing"

C7_Witness ==
    /\ MoodAnalysed
    /\ LET tl == FetchedTimeline
           I == PointsOf(tl, "joy")
       IN  /\ Cardinality(I) = 4
           /\ \A i \in I : tl[i].avg_score = <<2, 3, 6, 7>>[RankOf(tl, I, i) + 1]
    /\ report.trends["joy"] = "increasing"

----------------------------------------------------------------------------
(* Trigger Correlator: TemporalIntelligence.find_emotional_triggers *)

MinTriggerEntries == 10
SignificantScore == 4
MinCoOccurrences == 2
TopTriggers == 10
KeywordCap == 20

PositiveTriggerEmotions == {"joy", "love"}
NegativeTriggerEmotions == {"anger", "sadness", "fear"}

\* _get_entries_with_mood(days): the entries with timestamp >= cutoff,
\* ORDER BY e.timestamp DESC, each with the dict of its moods
GetEntriesWithMood(days, clock) ==
    SelectSeq(entries, LAMBDA e : e.timestamp >= clock - Days(days))

\* _extract_keywords(text): the distinct significant words of the content,
\* most common first, at most 20; a row holds them in that order
ExtractKeywords(row) ==
    SubSeq(row.keywords, 1,
           IF Len(row.keywords) < KeywordCap THEN Len(row.keywords) ELSE KeywordCap)

\* the concatenation of the first n sequences of ss
RECURSIVE ConcatUpTo(_, _)
ConcatUpTo(ss, n) == IF n = 0 THEN <<>> ELSE ConcatUpTo(ss, n - 1) \o ss[n]

Concat(ss) == ConcatUpTo(ss, Len(ss))

\* a score of 0.4 counted as significant
IsSignificantInclusive(score) == score >= SignificantScore

\* line 311: score > 0.4
IsSignificant(score) == score > SignificantScore

\* lines 306-313: the (keyword, emotion, score) triples of one entry
PairsOfEntry(row) ==
    LET keywords == ExtractKeywords(row) IN
    Concat([m \in 1..Len(row.moods) |->
        IF IsSignificant(row.moods[m].score)
        THEN [k \in 1..Len(keywords) |->
                 [keyword |-> keywords[k], emotion |-> row.moods[m].emotion,
                  score |-> row.moods[m].score]]
        ELSE <<>>])

\* lines 304-313: keyword_emotion_pairs
KeywordEmotionPairs(fetched) ==
    Concat([i \in 1..Len(fetched) |-> PairsOfEntry(fetched[i])])

\* the keys (keyword, emotion) of the pairs, in dict insertion order
PairKey(pair) == <<pair.keyword, pair.emotion>>

PairKeys(pairs) ==
    LET first == {i \in 1..Len(pairs) :
                     \A j \in 1..(i - 1) : PairKey(pairs[j]) # PairKey(pairs[i])}
        kept == SelectSeq([i \in 1..Len(pairs) |-> i], LAMBDA i : i \in first)
    IN  [k \in 1..Len(kept) |-> PairKey(pairs[kept[k]])]

\* a rational number num/den, den > 0
Ratio(num, den) == [num |-> num, den |-> den]

RatioGeq(a, b) == a.num * b.den >= b.num * a.den
RatioEq(a, b) == a.num * b.den = b.num * a.den

\* lines 419-430: the dict of one key; scores are tenths, so the score total
\* is total/10, avg_score total/(10*count) and the strength avg*count/10
Correlation(pairs, key) ==
    LET mine == SelectSeq(pairs, LAMBDA x : PairKey(x) = key)
        count == Len(mine)
        total == SeqSum([i \in 1..count |-> mine[i].score])
        avg_score == Ratio(total, 10 * count)
    IN  [keyword |-> key[1], emotion |-> key[2],
         co_occurrences |-> count,
         correlation_strength |-> Ratio(avg_score.num * count, avg_score.den * 10),
         avg_emotion_score |-> avg_score]

\* _calculate_keyword_emotion_correlations(pairs)
KeywordEmotionCorrelations(pairs) ==
    LET keys == PairKeys(pairs)
        all == [i \in 1..Len(keys) |-> Correlation(pairs, keys[i])]
    IN  SelectSeq(all, LAMBDA c : c.co_occurrences >= MinCoOccurrences)

\* sorted(cs, key=-correlation_strength): a stable insertion sort
InsertByStrength(s, c) ==
    LET k == Cardinality({i \in 1..Len(s) :
                 RatioGeq(s[i].correlation_strength, c.correlation_strength)})
    IN  SubSeq(s, 1, k) \o <<c>> \o SubSeq(s, k + 1, Len(s))

\* the first n items of s, sorted
RECURSIVE SortedByStrengthUpTo(_, _)
SortedByStrengthUpTo(s, n) ==
    IF n = 0 THEN <<>> ELSE InsertByStrength(SortedByStrengthUpTo(s, n - 1), s[n])

SortedByStrength(s) == SortedByStrengthUpTo(s, Len(s))

\* sorted(...)[:10]
Strongest(cs) ==
    LET sorted == SortedByStrength(cs)
    IN  SubSeq(sorted, 1, IF Len(sorted) < TopTriggers THEN Len(sorted) ELSE TopTriggers)

\* _generate_trigger_insights: the first positive and the first negative
\* trigger, as the (keyword, emotion) each sentence names
TriggerInsights(positive, negative) ==
    (IF positive # <<>> THEN <<<<positive[1].keyword, positive[1].emotion>>>> ELSE <<>>)
    \o (IF negative # <<>> THEN <<<<negative[1].keyword, negative[1].emotion>>>> ELSE <<>>)

\* the dict find_emotional_triggers(days) returns, with its request
EmotionalTriggers(days, clock) ==
    LET fetched == GetEntriesWithMood(days, clock) IN
    IF Len(fetched) < MinTriggerEntries
    THEN [kind |-> "triggers", request |-> Request(days, SteadyClock(clock)),
          status |-> "insufficient_data"]
    ELSE LET correlations == KeywordEmotionCorrelations(KeywordEmotionPairs(fetched))
             positive_triggers == SelectSeq(correlations,
                 LAMBDA c : c.emotion \in PositiveTriggerEmotions)
             negative_triggers == SelectSeq(correlations,
                 LAMBDA c : c.emotion \in NegativeTriggerEmotions)
         IN  [kind |-> "triggers", request |-> Request(days, SteadyClock(clock)),
              status |-> "success",
              positive_triggers |-> Strongest(positive_triggers),
              negative_triggers |-> Strongest(negative_triggers),
              insights |-> TriggerInsights(positive_triggers, negative_triggers)]

\* a request for the emotional triggers of the last `days` days
FindEmotionalTriggers(days) ==
    /\ report' = EmotionalTriggers(days, now)
    /\ UNCHANGED <<now, entries, timeline, mentions, project_rows, engines>>

----------------------------------------------------------------------------
(* The trigger specification: the diary holds TriggerSeedEntries entries    *)
(* without keywords or emotion scores; up to MaxTriggerEntries entries of    *)
(* the contents TriggerContents are written now; the triggers are requested  *)
(* over the default window.                                                  *)

TriggerSeedEntries == 7
MaxTriggerEntries == 4
TriggerToday == 3

Mood(emotion, score) == [emotion |-> emotion, score |-> score]

\* the keywords and moods of the entries written: a deadline feared, a
\* deadline with fear at the threshold, a holiday of many keywords, a party
TriggerContents ==
    { [keywords |-> <<"deadline">>, moods |-> <<Mood("fear", 6)>>],
      [keywords |-> <<"deadline">>, moods |-> <<Mood("fear", 4), Mood("joy", 7)>>],
      [keywords |-> <<"beach", "friends", "music", "sunset", "swim", "wine">>,
       moods |-> <<Mood("love", 7), Mood("joy", 5)>>],
      [keywords |-> <<"party">>, moods |-> <<Mood("surprise", 9), Mood("sadness", 8)>>] }

RECURSIVE SeedEntries(_, _)
SeedEntries(n, ts) ==
    IF n = 0 THEN <<>> ELSE <<EntryRow(ts, NoMoods, <<>>)>> \o SeedEntries(n - 1, ts)

TriggerInit ==
    /\ now = Days(TriggerToday)
    /\ entries = SeedEntries(TriggerSeedEntries, 0)
    /\ timeline = <<>>
    /\ mentions = NoMentions
    /\ project_rows = NoProjects
    /\ analytics_instance = NoEngine
    /\ temporal_intelligence = NoEngine
    /\ report = NoReport

TriggerAddEntry ==
    /\ Len(entries) < TriggerSeedEntries + MaxTriggerEntries
    /\ \E c \in TriggerContents : AddEntry(now, c.moods, c.keywords)

TriggerRequest == FindEmotionalTriggers(DefaultWindow)

TriggerNext == TriggerAddEntry \/ TriggerRequest

SpecTrigger == TriggerInit /\ [][TriggerNext]_vars

----------------------------------------------------------------------------
(* Claim C8: the keyword-emotion pairs the Trigger Correlator reports *)

TriggersAnalysed == report.kind = "triggers"

\* the entries the reported request fetched
TriggerFetched ==
    GetEntriesWithMood(report.request.days, report.request.clock.start)

\* the places <<entry, mood row>> where keyword k meets emotion e scored above 0.4
Occurrences(k, e) ==
    {x \in (1..Len(TriggerFetched)) \X (1..KeywordCap) :
        LET row == TriggerFetched[x[1]] IN
        /\ x[2] <= Len(row.moods)
        /\ row.moods[x[2]].emotion = e
        /\ row.moods[x[2]].score > SignificantScore
        /\ \E j \in 1..Len(row.keywords) : j <= KeywordCap /\ row.keywords[j] = k}

RECURSIVE ScoreSum(_)
ScoreSum(X) ==
    IF X = {} THEN 0
    ELSE LET x == CHOOSE y \in X : TRUE
         IN  TriggerFetched[x[1]].moods[x[2]].score + ScoreSum(X \ {x})

FetchedKeywords ==
    UNION {{TriggerFetched[i].keywords[j] : j \in 1..Len(TriggerFetched[i].keywords)} :
              i \in 1..Len(TriggerFetched)}

FetchedEmotions ==
    UNION {{TriggerFetched[i].moods[j].emotion : j \in 1..Len(TriggerFetched[i].moods)} :
              i \in 1..Len(TriggerFetched)}

\* the pairs that co-occur at least twice
RecurringPairs ==
    {x \in FetchedKeywords \X FetchedEmotions :
        Cardinality(Occurrences(x[1], x[2])) >= MinCoOccurrences}

SeqItems(s) == {s[i] : i \in 1..Len(s)}

\* the trigger dicts of the report, none when it carries no list
ReportedTriggers ==
    IF TriggersAnalysed /\ report.status = "success"
    THEN SeqItems(report.positive_triggers) \union SeqItems(report.negative_triggers)
    ELSE {}

\* the dict r carries the count, the average and the strength of its pair:
\* co_occurrences = count, avg = total / count, strength = avg * count / 10,
\* the scores being tenths
RightlyMeasured(r) ==
    LET X == Occurrences(r.keyword, r.emotion)
        count == Cardinality(X)
        total == ScoreSum(X)
    IN  /\ r.co_occurrences = count
        /\ count >= MinCoOccurrences
        /\ RatioEq(r.avg_emotion_score, Ratio(total, 10 * count))
        /\ RatioEq(r.correlation_strength, Ratio(total, 100))

StrongestOf(triggers, E) ==
    LET due == {x \in RecurringPairs : x[2] \in E} IN
    /\ Len(triggers) = (IF Cardinality(due) < TopTriggers
                        THEN Cardinality(due) ELSE TopTriggers)
    /\ \A i \in 1..Len(triggers) :
           /\ <<triggers[i].keyword, triggers[i].emotion>> \in due
           /\ RightlyMeasured(triggers[i])
           /\ \A j \in 1..(i - 1) :
                  /\ PairKey(triggers[j]) # PairKey(triggers[i])
                  /\ RatioGeq(triggers[j].correlation_strength,
                              triggers[i].correlation_strength)
    /\ \A x \in due :
           \/ \E i \in 1..Len(triggers) : PairKey(triggers[i]) = x
           \/ \A i \in 1..Len(triggers) :
                  RatioGeq(triggers[i].correlation_strength,
                           Ratio(ScoreSum(Occurrences(x[1], x[2])), 100))

----------------------------------------------------------------------------
(* Productivity Scorer: DeepAnalytics.get_project_insights,                  *)
(* get_creative_productivity_score and _get_productivity_level               *)

MentionLimit == 100
ActiveDays == 7
StaleDays == 30
RecommendAfter == 14
RecommendBefore == 60
MaxScore == 100

\* lines 189-197: the timestamps of the entries mentioning p,
\* ORDER BY e.timestamp DESC LIMIT 100
ProjectMentions(p) ==
    LET n == Len(mentions[p])
        desc == [i \in 1..n |-> mentions[p][n + 1 - i]]
    IN  SubSeq(desc, 1, IF n < MentionLimit THEN n ELSE MentionLimit)

\* line 209
ProjectStatus(days_since) ==
    IF days_since < ActiveDays THEN "active"
    ELSE IF days_since < StaleDays THEN "stale" ELSE "dormant"

\* lines 202-210: project_data
ProjectData(p, clock) ==
    LET found == ProjectMentions(p)
        days_since == DeltaDays(clock - found[1])
    IN  [name |-> p, total_mentions |-> Len(found),
         days_since_last_mention |-> days_since,
         status |-> ProjectStatus(days_since)]

\* the dict get_project_insights() returns; a recommendation is the name of
\* the project it speaks of
ProjectInsights(clock) ==
    LET projects == GetActiveProjects
        mentioned == SelectSeq(projects, LAMBDA p : mentions[p] # <<>>)
        data == [i \in 1..Len(mentioned) |-> ProjectData(mentioned[i], clock)]
        due == SelectSeq(data, LAMBDA d : /\ d.days_since_last_mention > RecommendAfter
                                          /\ d.days_since_last_mention < RecommendBefore)
    IN  [kind |-> "project_insights",
         active_projects |-> Len(projects),
         projects |-> data,
         recommendations |-> [i \in 1..Len(due) |-> due[i].name]]

\* lines 235-242
ConsistencyFactor(current_streak) ==
    IF current_streak >= 7 THEN 30
    ELSE IF current_streak >= 3 THEN 20
    ELSE IF current_streak >= 1 THEN 10 ELSE 0

\* lines 245-255
VolumeFactor(week_entries) ==
    IF week_entries >= 7 THEN 30
    ELSE IF week_entries >= 5 THEN 25
    ELSE IF week_entries >= 3 THEN 15
    ELSE IF week_entries >= 1 THEN 10 ELSE 0

PositiveMoods == {"joy", "love", "excitement", "calm"}

\* lines 258-263
MoodFactor(dominant) == IF dominant \in PositiveMoods THEN 20 ELSE 10

\* lines 267-275 with nothing given for no active project
ProjectsFactorFromZero(active_count) ==
    IF active_count >= 3 THEN 20
    ELSE IF active_count >= 2 THEN 15
    ELSE IF active_count >= 1 THEN 10 ELSE 0

\* lines 267-275
ProjectsFactor(active_count) ==
    IF active_count >= 3 THEN 20
    ELSE IF active_count >= 2 THEN 15
    ELSE IF active_count >= 1 THEN 10 ELSE 5

\* every breakpoint given to the level below it
ProductivityLevelStrict(score) ==
    IF score > 80 THEN "On Fire"
    ELSE IF score > 60 THEN "Thriving"
    ELSE IF score > 40 THEN "Building Momentum"
    ELSE IF score > 20 THEN "Growing" ELSE "Resting Phase"

\* _get_productivity_level(score); the levels are named without their emoji
ProductivityLevel(score) ==
    IF score >= 80 THEN "On Fire"
    ELSE IF score >= 60 THEN "Thriving"
    ELSE IF score >= 40 THEN "Building Momentum"
    ELSE IF score >= 20 THEN "Growing" ELSE "Resting Phase"

\* lines 277-284: the dict returned for the factors
ScoreOfFactors(factors) ==
    LET total_score == factors.consistency + factors.volume
                           + factors.mood + factors.projects
    IN  [kind |-> "score", outcome |-> "returned",
         score |-> total_score, max_score |-> MaxScore,
         factors |-> factors, level |-> ProductivityLevel(total_score)]

\* get_creative_productivity_score(): the dict returned, or the KeyError of
\* line 245 when the streak dict has no entries_this_week
CreativeProductivityScore(clock) ==
    LET streak == WritingStreak(GetRecentEntries(RecentLimit), DateOf(clock))
        mood_analysis == MoodPatterns(WeekDays, clock)
        dominant == IF "dominant_emotion_last_week" \in DOMAIN mood_analysis
                    THEN mood_analysis.dominant_emotion_last_week ELSE None
        project_insights == ProjectInsights(clock)
        active_count == Len(SelectSeq(project_insights.projects,
                                      LAMBDA p : p.status = "active"))
    IN  IF "entries_this_week" \notin DOMAIN streak
        THEN [kind |-> "score", outcome |-> "KeyError"]
        ELSE ScoreOfFactors(
                 [consistency |-> ConsistencyFactor(streak.current_streak),
                  volume |-> VolumeFactor(streak.entries_this_week),
                  mood |-> MoodFactor(dominant),
                  projects |-> ProjectsFactor(active_count)])

\* a request for the productivity score
GetCreativeProductivityScore ==
    /\ report' = CreativeProductivityScore(now)
    /\ UNCHANGED <<now, entries, timeline, mentions, project_rows, engines>>

\* add_entry on day `date`, then add_mood of its emotion score if it has one
\* (the first of the day for that emotion, put at place k among the rows of
\* the date), then link_project_to_entry for each project it mentions
DiaryEntryWritten(date, moods, projects, k) ==
    LET ts == Days(date) + MoodEntryTick IN
    /\ entries' = InsertEntry(entries, EntryRow(ts, moods, <<>>))
    /\ IF moods = <<>>
       THEN timeline' = timeline
       ELSE /\ \A i \in 1..Len(timeline) :
                   ~(timeline[i].date = date /\ timeline[i].emotion = moods[1].emotion)
            /\ k >= Cardinality({i \in 1..Len(timeline) : timeline[i].date > date})
            /\ k <= Cardinality({i \in 1..Len(timeline) : timeline[i].date >= date})
            /\ timeline' = SubSeq(timeline, 1, k)
                     \o <<MoodRow(date, moods[1].emotion, moods[1].score)>>
                     \o SubSeq(timeline, k + 1, Len(timeline))
    /\ mentions' = LinkedMentions(mentions, project_rows, projects, ts)
    /\ project_rows' = AddProjects(project_rows, projects, now)

\* the write, which leaves no report standing
WriteDiaryEntry(date, moods, projects, k) ==
    /\ DiaryEntryWritten(date, moods, projects, k)
    /\ report' = NoReport
    /\ UNCHANGED <<now, engines>>

----------------------------------------------------------------------------
(* The productivity-score specification: up to ScoreMaxEntries entries are   *)
(* written on the days of ScoreDays, each plain, with one emotion score or   *)
(* mentioning one project; the clock runs over day ScoreToday; the score is  *)
(* requested at any time.                                                    *)

ScoreToday == 8
ScoreMaxEntries == 3

ScoreDays ==
    {ScoreToday - 8, ScoreToday - 7, ScoreToday - 2, ScoreToday - 1, ScoreToday}

ScoreContents ==
    { [moods |-> NoMoods, projects |-> {}],
      [moods |-> <<Mood("joy", 6)>>, projects |-> {}],
      [moods |-> <<Mood("sadness", 6)>>, projects |-> {}],
      [moods |-> NoMoods, projects |-> {"novel"}],
      [moods |-> NoMoods, projects |-> {"garden"}] }

ScoreClock == Days(ScoreToday)..(Days(ScoreToday + 1) - 1)

ScoreInit ==
    /\ now = Days(ScoreToday)
    /\ entries = <<>>
    /\ timeline = <<>>
    /\ mentions = NoMentions
    /\ project_rows = NoProjects
    /\ analytics_instance = NoEngine
    /\ temporal_intelligence = NoEngine
    /\ report = NoReport

ScoreWrite ==
    /\ Len(entries) < ScoreMaxEntries
    /\ \E date \in ScoreDays, c \in ScoreContents, k \in 0..Len(timeline) :
           WriteDiaryEntry(date, c.moods, c.projects, k)

ScoreTick ==
    /\ now + 1 \in ScoreClock
    /\ now' = now + 1
    /\ report' = NoReport
    /\ UNCHANGED <<entries, timeline, mentions, project_rows, engines>>

ScoreNext == ScoreWrite \/ ScoreTick \/ GetCreativeProductivityScore

SpecScore == ScoreInit /\ [][ScoreNext]_vars

----------------------------------------------------------------------------
(* The level specification: the four factors take any of the values lines    *)
(* 235-275 give them, and the score dict is built of them.                   *)

FactorDicts ==
    [consistency : {0, 10, 20, 30}, volume : {0, 10, 15, 25, 30},
     mood : {10, 20}, projects : {5, 10, 15, 20}]

LevelInit ==
    /\ now = 0
    /\ entries = <<>>
    /\ timeline = <<>>
    /\ mentions = NoMentions
    /\ project_rows = NoProjects
    /\ analytics_instance = NoEngine
    /\ temporal_intelligence = NoEngine
    /\ report \in {[kind |-> "factors", factors |-> f] : f \in FactorDicts}

LevelReturn ==
    /\ report.kind = "factors"
    /\ report' = ScoreOfFactors(report.factors)
    /\ UNCHANGED <<now, entries, timeline, mentions, project_rows, engines>>

LevelNext == LevelReturn

SpecLevel == LevelInit /\ [][LevelNext]_vars

----------------------------------------------------------------------------
(* Claims C9 and C10: the productivity score and its level *)

\* the report is the outcome of a score request on a store with entries
ScoreAnalysed == report.kind = "score" /\ entries # <<>>

\* the number of entries whose date lies in the trailing 7 days
WeekEntryCount ==
    Cardinality({i \in 1..Len(entries) :
                    DateOf(entries[i].timestamp) >= DateOf(now) - 7})

\* the projects mentioned by an entry less than 7 days old
WeekProjects ==
    {p \in DOMAIN mentions :
        \E i \in 1..Len(mentions[p]) : now - mentions[p][i] < Days(7)}

\* the length of the run of written days that ends today or yesterday
RunToday ==
    LET d == MaxOf(StoreDates)
    IN  IF d >= DateOf(now) - 1 THEN RunEndingAt(StoreDates, d) ELSE 0

\* the emotions with the maximum summed score over the trailing 7 days
WeekDominants ==
    LET tl == GetMoodTimeline(WeekDays, now)
    IN  {e \in {tl[i].emotion : i \in 1..Len(tl)} : HasMaxTotal(tl, WeekDays, now, e)}

\* C9, as stated: the score returned for a store with entries is
\* consistency + volume + mood + projects, consistency 30/20/10/0 for a
\* current streak >= 7 / >= 3 / >= 1 / else, volume 30/25/15/10/0 for the
\* number of entries in the trailing 7 days >= 7 / >= 5 / >= 3 / >= 1 / else,
\* mood 20 if the dominant emotion of the trailing 7 days is joy, love,
\* excitement or calm and else 10, projects 20/15/10/5 for the number of
\* projects mentioned within the trailing 7 days >= 3 / >= 2 / >= 1 / else;
\* the total is at most 100
C9_ScoreFromWeekEntries ==
    ScoreAnalysed =>
        /\ report.outcome = "returned"
        /\ report.factors.consistency =
               (IF RunToday >= 7 THEN 30 ELSE IF RunToday >= 3 THEN 20
                ELSE IF RunToday >= 1 THEN 10 ELSE 0)
        /\ report.factors.volume =
               (IF WeekEntryCount >= 7 THEN 30 ELSE IF WeekEntryCount >= 5 THEN 25
                ELSE IF WeekEntryCount >= 3 THEN 15
                ELSE IF WeekEntryCount >= 1 THEN 10 ELSE 0)
        /\ IF WeekDominants = {} THEN report.factors.mood = 10
           ELSE \E e \in WeekDominants :
                    report.factors.mood =
                        (IF e \in {"joy", "love", "excitement", "calm"} THEN 20 ELSE 10)
        /\ report.factors.projects =
               (IF Cardinality(WeekProjects) >= 3 THEN 20
                ELSE IF Cardinality(WeekProjects) >= 2 THEN 15
                ELSE IF Cardinality(WeekProjects) >= 1 THEN 10 ELSE 5)
        /\ report.score = report.factors.consistency + report.factors.volume
                              + report.factors.mood + report.factors.projects
        /\ report.score <= 100

\* C10: the level of a returned score dict is given by its score alone: On
\* Fire from 80, Thriving from 60 to 79, Building Momentum from 40 to 59,
\* Growing from 20 to 39, Resting Phase below 20; the score is the sum of the
\* factors, and the factors 20 + 15 + 10 + 10 give 55 and Building Momentum
C10_LevelByBreakpoints ==
    (report.kind = "score" /\ report.outcome = "returned") =>
        /\ report.score = report.factors.consistency + report.factors.volume
                              + report.factors.mood + report.factors.projects
        /\ report.score \in 80..MaxScore <=> report.level = "On Fire"
        /\ report.score \in 60..79 <=> report.level = "Thriving"
        /\ report.score \in 40..59 <=> report.level = "Building Momentum"
        /\ report.score \in 20..39 <=> report.level = "Growing"
        /\ report.score < 20 <=> report.level = "Resting Phase"
        /\ report.factors = [consistency |-> 20, volume |-> 15, mood |-> 10, projects |-> 10]
               => report.score = 55 /\ report.level = "Building Momentum"

\* a score of exactly 40 is returned with the level Building Momentum
C10_Witness ==
    /\ report.kind = "score"
    /\ report.outcome = "returned"
    /\ report.score = 40
    /\ report.level = "Building Momentum"

----------------------------------------------------------------------------
(* Claims C11 and C12: the counts of the writing-streak report *)

\* C11: the streak report of a store without entries carries every count --
\* current_streak, longest_streak, total_entries, entries_this_week and
\* entries_this_month -- as zero and last_entry_date as null
C11_EmptyStoreAllCounts ==
    (report.kind = "streak" /\ entries = <<>>) =>
        /\ {"current_streak", "longest_streak", "total_entries", "last_entry_date",
            "entries_this_week", "entries_this_month"} \subseteq DOMAIN report
        /\ report.current_streak = 0
        /\ report.longest_streak = 0
        /\ report.total_entries = 0
        /\ report.entries_this_week = 0
        /\ report.entries_this_month = 0
        /\ report.last_entry_date = None

\* the number of entries whose date is at most `days` days before today
EntriesWithin(days) ==
    Cardinality({i \in 1..Len(entries) :
                    DateOf(entries[i].timestamp) >= DateOf(now) - days})

\* C12: the streak report of a store with entries counts, as entries_this_week
\* and entries_this_month, the entries whose date lies in the trailing 7 and
\* 30 days, each entry once, entries of one day each adding to the count
C12_WeekAndMonthCountEntries ==
    (report.kind = "streak" /\ entries # <<>>) =>
        /\ report.entries_this_week = EntriesWithin(7)
        /\ report.entries_this_month = EntriesWithin(30)

----------------------------------------------------------------------------
(* Mood cycles: TemporalIntelligence.detect_mood_cycles and                  *)
(* _detect_mood_streaks                                                       *)

MinCycleEntries == 7
StreakScore == 3
MinStreakLength == 3
NotableStreaks == 5

PositiveStreakEmotions == {"joy", "love", "surprise"}
NegativeStreakEmotions == {"sadness", "anger", "fear"}

\* sorted(entries, key=timestamp) of fetched rows: a stable insertion sort
InsertByTimestamp(s, row) ==
    LET k == Cardinality({i \in 1..Len(s) : s[i].timestamp <= row.timestamp})
    IN  SubSeq(s, 1, k) \o <<row>> \o SubSeq(s, k + 1, Len(s))

\* the first n rows of s, sorted
RECURSIVE SortedByTimestampUpTo(_, _)
SortedByTimestampUpTo(s, n) ==
    IF n = 0 THEN <<>> ELSE InsertByTimestamp(SortedByTimestampUpTo(s, n - 1), s[n])

SortedByTimestamp(s) == SortedByTimestampUpTo(s, Len(s))

\* line 177: max(moods.items(), key=score), the first item of the highest
\* score; the moods are not empty
DominantMood(moods) ==
    LET best == MaxOf({moods[i].score : i \in 1..Len(moods)})
    IN  moods[MinOf({i \in 1..Len(moods) : moods[i].score = best})]

\* a score of exactly 0.3 left out as well
IsStreakScoreStrict(score) == score > StreakScore

\* line 180: the entry is passed over when score < 0.3
IsStreakScore(score) == score >= StreakScore

\* current_streak = None
NoStreak == [emotion |-> None, length |-> 0, start_date |-> 0, end_date |-> 0]

\* lines 190-195
NewStreak(emotion, date) ==
    [emotion |-> emotion, length |-> 1, start_date |-> date, end_date |-> date]

\* lines 187-188 and 198-199: the streaks with current_streak added if it is
\* long enough
Recorded(streaks, current_streak) ==
    IF current_streak.length >= MinStreakLength
    THEN Append(streaks, current_streak) ELSE streaks

\* the loop of lines 175-195 from entry i on, then lines 198-199
RECURSIVE StreakLoop(_, _, _, _)
StreakLoop(sorted_entries, i, streaks, current_streak) ==
    IF i > Len(sorted_entries) THEN Recorded(streaks, current_streak)
    ELSE LET dominant == DominantMood(sorted_entries[i].moods)
             date == DateOf(sorted_entries[i].timestamp)
         IN  IF ~IsStreakScore(dominant.score)
             THEN StreakLoop(sorted_entries, i + 1, streaks, current_streak)
             ELSE IF current_streak.length > 0
                     /\ current_streak.emotion = dominant.emotion
             THEN StreakLoop(sorted_entries, i + 1, streaks,
                      [current_streak EXCEPT !.length = @ + 1, !.end_date = date])
             ELSE StreakLoop(sorted_entries, i + 1,
                      Recorded(streaks, current_streak),
                      NewStreak(dominant.emotion, date))

\* the list sorted by length the other way round, the shortest first
InsertByLengthAscending(s, x) ==
    LET k == Cardinality({i \in 1..Len(s) : s[i].length <= x.length})
    IN  SubSeq(s, 1, k) \o <<x>> \o SubSeq(s, k + 1, Len(s))

\* sorted(streaks, key=-length): a stable insertion sort
InsertByLength(s, x) ==
    LET k == Cardinality({i \in 1..Len(s) : s[i].length >= x.length})
    IN  SubSeq(s, 1, k) \o <<x>> \o SubSeq(s, k + 1, Len(s))

RECURSIVE SortedByLengthUpTo(_, _)
SortedByLengthUpTo(s, n) ==
    IF n = 0 THEN <<>> ELSE InsertByLength(SortedByLengthUpTo(s, n - 1), s[n])

\* _find_longest_positive_streak and _find_longest_negative_streak: the first
\* of the longest streaks with an emotion of E, as a list of one, or none
LongestStreakOf(streaks, E) ==
    LET mine == SelectSeq(streaks, LAMBDA s : s.emotion \in E)
    IN  IF mine = <<>> THEN <<>>
        ELSE LET best == MaxOf({mine[i].length : i \in 1..Len(mine)})
             IN  <<mine[MinOf({i \in 1..Len(mine) : mine[i].length = best})]>>

\* lines 201-205: the dict _detect_mood_streaks returns for the list `streaks`
\* of the runs it recorded, with that list
StreakReport(streaks) ==
    LET sorted == SortedByLengthUpTo(streaks, Len(streaks))
    IN  [recorded |-> streaks,
         notable_streaks |->
             SubSeq(sorted, 1, IF Len(sorted) < NotableStreaks
                               THEN Len(sorted) ELSE NotableStreaks),
         longest_positive |-> LongestStreakOf(streaks, PositiveStreakEmotions),
         longest_negative |-> LongestStreakOf(streaks, NegativeStreakEmotions)]

\* the dict _detect_mood_streaks(entries) returns for entries that all carry
\* moods
MoodStreaks(fetched) ==
    StreakReport(StreakLoop(SortedByTimestamp(fetched), 1, <<>>, NoStreak))

\* the outcome of detect_mood_cycles(days): insufficient_data below 7 entries,
\* the ValueError of max() at line 177 when an entry has no moods, else the
\* success dict with its data points and streaks
MoodCycles(days, clock) ==
    LET fetched == GetEntriesWithMood(days, clock) IN
    IF Len(fetched) < MinCycleEntries
    THEN [kind |-> "cycles", request |-> Request(days, SteadyClock(clock)),
          outcome |-> "returned", status |-> "insufficient_data"]
    ELSE IF \E i \in 1..Len(fetched) : fetched[i].moods = <<>>
    THEN [kind |-> "cycles", request |-> Request(days, SteadyClock(clock)),
          outcome |-> "ValueError"]
    ELSE [kind |-> "cycles", request |-> Request(days, SteadyClock(clock)),
          outcome |-> "returned", status |-> "success",
          data_points |-> Len(fetched),
          streaks |-> MoodStreaks(fetched)]

\* a request for the mood cycles of the last `days` days
DetectMoodCycles(days) ==
    /\ report' = MoodCycles(days, now)
    /\ UNCHANGED <<now, entries, timeline, mentions, project_rows, engines>>

----------------------------------------------------------------------------
(* The mood-cycle specification: the diary holds CycleSeedEntries joyful     *)
(* entries of day 0; up to MaxCycleEntries entries of the moods CycleMoods    *)
(* are written with a timestamp of the days 1..CycleToday - 1, in any order;  *)
(* the cycles are requested over the default window.                          *)

CycleSeedEntries == 4
MaxCycleEntries == 4
CycleToday == 3

\* joy, joy below the bar, sadness at the bar of 0.3, sadness tied with joy
\* and listed first, no emotion scores
CycleMoods ==
    { <<Mood("joy", 5)>>, <<Mood("joy", 2)>>, <<Mood("sadness", 3)>>,
      <<Mood("sadness", 6), Mood("joy", 6)>>, NoMoods }

CycleTicks == {Days(d) : d \in 1..(CycleToday - 1)}

RECURSIVE SeedJoy(_)
SeedJoy(n) ==
    IF n = 0 THEN <<>> ELSE <<EntryRow(0, <<Mood("joy", 5)>>, <<>>)>> \o SeedJoy(n - 1)

CycleInit ==
    /\ now = Days(CycleToday)
    /\ entries = SeedJoy(CycleSeedEntries)
    /\ timeline = <<>>
    /\ mentions = NoMentions
    /\ project_rows = NoProjects
    /\ analytics_instance = NoEngine
    /\ temporal_intelligence = NoEngine
    /\ report = NoReport

CycleAddEntry ==
    /\ Len(entries) < CycleSeedEntries + MaxCycleEntries
    /\ \E ts \in CycleTicks, moods \in CycleMoods : AddEntry(ts, moods, <<>>)

CycleRequest == DetectMoodCycles(DefaultWindow)

CycleNext == CycleAddEntry \/ CycleRequest

SpecCycles == CycleInit /\ [][CycleNext]_vars

----------------------------------------------------------------------------
(* Claim C13: every analysis answers sparse data with a status *)

AnalysisKinds == {"streak", "mood", "cycles", "momentum", "triggers", "score"}

\* C13: whatever the store holds, the report of an analysis is returned, not
\* raised, and carries an explicit status value
C13_StatusNeverRaises ==
    report.kind \in AnalysisKinds =>
        /\ "outcome" \in DOMAIN report => report.outcome = "returned"
        /\ "status" \in DOMAIN report
        /\ report.status \in {"success", "insufficient_data", "no_projects"}

----------------------------------------------------------------------------
(* The specification of supplied records: the store hands an analysis a     *)
(* list of up to MaxSupplied records with timestamps of SuppliedTicks in any *)
(* order, and the writing streak, the project momentum or the mood streaks   *)
(* are computed of it.                                                       *)

MaxSupplied == 3
SuppliedToday == 3

SuppliedTicks == {Days(d) : d \in 0..SuppliedToday}

SuppliedLists == UNION {[1..n -> SuppliedTicks] : n \in 2..MaxSupplied}

\* the entries of the timestamps, each with a joyful mood
SuppliedEntries(stamps) ==
    [i \in 1..Len(stamps) |-> EntryRow(stamps[i], <<Mood("joy", 5)>>, <<>>)]

\* what an analysis made of the supplied list
Computed(analysis, stamps, result) ==
    [kind |-> "computed", analysis |-> analysis, supplied |-> stamps,
     outcome |-> "returned", result |-> result]

SuppliedInit ==
    /\ now = Days(SuppliedToday)
    /\ entries = <<>>
    /\ timeline = <<>>
    /\ mentions = NoMentions
    /\ project_rows = NoProjects
    /\ analytics_instance = NoEngine
    /\ temporal_intelligence = NoEngine
    /\ report \in {[kind |-> "supplied", supplied |-> s] : s \in SuppliedLists}

\* get_writing_streak from line 35 on, of the entries supplied
StreakOfSupplied ==
    /\ report.kind = "supplied"
    /\ report' = Computed("streak", report.supplied,
                     WritingStreak(SuppliedEntries(report.supplied), DateOf(now)))
    /\ UNCHANGED <<now, entries, timeline, mentions, project_rows, engines>>

\* _calculate_project_momentum of the mentions supplied
MomentumOfSupplied ==
    /\ report.kind = "supplied"
    /\ report' = Computed("momentum", report.supplied,
                     CalculateProjectMomentum(report.supplied, SteadyClock(now)))
    /\ UNCHANGED <<now, entries, timeline, mentions, project_rows, engines>>

\* _detect_mood_streaks of the entries supplied
MoodStreaksOfSupplied ==
    /\ report.kind = "supplied"
    /\ report' = Computed("mood_streaks", report.supplied,
                     MoodStreaks(SuppliedEntries(report.supplied)))
    /\ UNCHANGED <<now, entries, timeline, mentions, project_rows, engines>>

SuppliedNext == StreakOfSupplied \/ MomentumOfSupplied \/ MoodStreaksOfSupplied

SpecSupplied == SuppliedInit /\ [][SuppliedNext]_vars

\* the timestamps neither never fall nor never rise along the list
NonMonotonic(stamps) ==
    /\ \E i \in 1..(Len(stamps) - 1) : stamps[i] < stamps[i + 1]
    /\ \E i \in 1..(Len(stamps) - 1) : stamps[i] > stamps[i + 1]

\* C14: an analysis handed records whose timestamps are not in monotonic
\* order ends in an error outcome, not in a normal result
C14_UnorderedFailsFast ==
    (report.kind = "computed" /\ NonMonotonic(report.supplied)) =>
        report.outcome # "returned"

----------------------------------------------------------------------------
(* Claim C16: momentum needs two mentions *)

\* the momentum dicts the report lists for project p
MomentumOf(p) ==
    {report.momentum_data[i].momentum : i \in
        {j \in 1..Len(report.momentum_data) :
            report.momentum_data[j].project_name = p}}

\* C16: in a momentum report every project of the store with fewer than 2
\* mentions in the window has the status insufficient_data, and the status
\* stalled, accelerating or consistent is given to a project of at least 2
\* mentions in the window only
C16_FewMentionsInsufficient ==
    MomentumListed =>
        \A p \in DOMAIN mentions :
            /\ Len(Fetched(p)) < 2 =>
                   /\ MomentumOf(p) # {}
                   /\ \A m \in MomentumOf(p) : m.status = "insufficient_data"
            /\ \A m \in MomentumOf(p) :
                   m.status \in {"stalled", "accelerating", "consistent"}
                       => Len(Fetched(p)) >= 2

----------------------------------------------------------------------------
(* Claim C18: the first and last mention of a project *)

\* C18: after any writes, first_mentioned and last_mentioned of every row of
\* table projects are the least and the greatest timestamp of the entries
\* that mention the project
C18_FirstLastAreMinMax ==
    \A p \in DOMAIN project_rows :
        /\ p \in DOMAIN mentions
        /\ mentions[p] # <<>>
        /\ project_rows[p].first_mentioned = SeqMin(mentions[p])
        /\ project_rows[p].last_mentioned = SeqMax(mentions[p])

----------------------------------------------------------------------------
(* The combined report: DeepAnalytics.get_comprehensive_insights, served     *)
(* while another process writes to the store                                  *)

\* a report under way stays with its request through a write of another
\* process; a report returned is no longer the last word on the store
AfterWrite(r) == IF r.kind = "insights_pending" THEN r ELSE NoReport

\* line 303: the first value of the dict, get_writing_streak()
ComprehensiveStreak ==
    /\ report.kind # "insights_pending"
    /\ report' = [kind |-> "insights_pending", step |-> 1,
                  streak |-> WritingStreak(GetRecentEntries(RecentLimit), DateOf(now))]
    /\ UNCHANGED <<now, entries, timeline, mentions, project_rows, engines>>

\* line 304: analyze_temporal_mood_patterns() with its default of 30 days
ComprehensiveMood ==
    /\ report.kind = "insights_pending"
    /\ report.step = 1
    /\ report' = [kind |-> "insights_pending", step |-> 2,
                  streak |-> report.streak,
                  mood_patterns |-> MoodPatterns(MonthDays, now)]
    /\ UNCHANGED <<now, entries, timeline, mentions, project_rows, engines>>

\* line 305: get_project_insights()
ComprehensiveProjects ==
    /\ report.kind = "insights_pending"
    /\ report.step = 2
    /\ report' = [kind |-> "insights_pending", step |-> 3,
                  streak |-> report.streak,
                  mood_patterns |-> report.mood_patterns,
                  project_insights |-> ProjectInsights(now)]
    /\ UNCHANGED <<now, entries, timeline, mentions, project_rows, engines>>

\* line 306: get_creative_productivity_score(), which reads the store anew,
\* and the return of the dict, or the KeyError the score raises
ComprehensiveScore ==
    /\ report.kind = "insights_pending"
    /\ report.step = 3
    /\ LET productivity_score == CreativeProductivityScore(now) IN
       report' = IF productivity_score.outcome = "KeyError"
                 THEN [kind |-> "insights", outcome |-> "KeyError"]
                 ELSE [kind |-> "insights", outcome |-> "returned",
                       streak |-> report.streak,
                       mood_patterns |-> report.mood_patterns,
                       project_insights |-> report.project_insights,
                       productivity_score |-> productivity_score]
    /\ UNCHANGED <<now, entries, timeline, mentions, project_rows, engines>>

----------------------------------------------------------------------------
(* The combined-report specification: a process writes up to                 *)
(* InsightsMaxEntries entries on the last InsightsDays days, plain or        *)
(* joyful, at any time, also between the steps of a combined report.         *)

InsightsMaxEntries == 3
InsightsToday == 3
InsightsDays == 3

InsightsDates == (InsightsToday - InsightsDays + 1)..InsightsToday

InsightsMoods == {NoMoods, <<Mood("joy", 6)>>}

InsightsInit ==
    /\ now = Days(InsightsToday)
    /\ entries = <<>>
    /\ timeline = <<>>
    /\ mentions = NoMentions
    /\ project_rows = NoProjects
    /\ analytics_instance = NoEngine
    /\ temporal_intelligence = NoEngine
    /\ report = NoReport

InsightsWrite ==
    /\ Len(entries) < InsightsMaxEntries
    /\ \E date \in InsightsDates, moods \in InsightsMoods, k \in 0..Len(timeline) :
           DiaryEntryWritten(date, moods, {}, k)
    /\ report' = AfterWrite(report)
    /\ UNCHANGED <<now, engines>>

InsightsNext ==
    \/ InsightsWrite
    \/ ComprehensiveStreak
    \/ ComprehensiveMood
    \/ ComprehensiveProjects
    \/ ComprehensiveScore

SpecInsights == InsightsInit /\ [][InsightsNext]_vars

----------------------------------------------------------------------------
(* Claims C15 and C17: the combined report *)

\* the combined report was returned
InsightsReturned == report.kind = "insights" /\ report.outcome = "returned"

\* the 7-day count of the streak section, 0 where the section has none
ReportedWeekCount ==
    IF "entries_this_week" \in DOMAIN report.streak
    THEN report.streak.entries_this_week ELSE 0

\* C15: in a combined report the section 'streak' and the factors of the
\* section 'productivity_score' describe one and the same snapshot of the
\* store, whatever another process wrote meanwhile: consistency is the table
\* 30/20/10/0 of the reported current_streak and volume the table
\* 30/25/15/10/0 of the reported 7-day count
C15_OneSnapshot ==
    InsightsReturned =>
        LET streak == report.streak.current_streak
            week == ReportedWeekCount
            factors == report.productivity_score.factors
        IN  /\ factors.consistency =
                   (IF streak >= 7 THEN 30 ELSE IF streak >= 3 THEN 20
                    ELSE IF streak >= 1 THEN 10 ELSE 0)
            /\ factors.volume =
                   (IF week >= 7 THEN 30 ELSE IF week >= 5 THEN 25
                    ELSE IF week >= 3 THEN 15 ELSE IF week >= 1 THEN 10 ELSE 0)

\* the kinds of the sections of the combined report
SectionKinds == {report[f].kind : f \in DOMAIN report \ {"kind", "outcome"}}

\* C17: the combined report returned holds a section of each of the five
\* analyses -- writing streak, mood trends, mood cycles, project momentum,
\* emotional triggers -- and the productivity score
C17_AllAnalysesAggregated ==
    InsightsReturned =>
        AnalysisKinds \subseteq SectionKinds

----------------------------------------------------------------------------
(* Claims C19 and C20: the runs of one dominant emotion *)

\* the mood cycles were computed in full
CyclesComputed ==
    /\ report.kind = "cycles"
    /\ report.outcome = "returned"
    /\ report.status = "success"

\* the entries the report was computed from, in chronological order
CycleEntries == SortedByTimestamp(GetEntriesWithMood(DefaultWindow, now))

\* the entries that take part in run detection: the top score is above 0.3
AboveBar(sorted_entries) ==
    SelectSeq(sorted_entries, LAMBDA e : IsStreakScoreStrict(DominantMood(e.moods).score))

\* C19: an entry takes part in run detection only if the score of its
\* dominant emotion is above 0.3; an entry of a top score of 0.3 or less is
\* passed over and neither extends nor ends the run in progress, so the runs
\* recorded are those of the same entries with the passed-over ones taken out
C19_OnlyAboveBarTakesPart ==
    CyclesComputed =>
        report.streaks.recorded =
            StreakLoop(AboveBar(CycleEntries), 1, <<>>, NoStreak)

\* the dominant emotion of the i-th entry of q
EmotionAt(q, i) == DominantMood(q[i].moods).emotion

\* the maximal runs of q: the stretches a..b of one dominant emotion that can
\* be extended on neither side
MaximalRuns(q) ==
    {r \in (1..Len(q)) \X (1..Len(q)) :
        /\ r[1] <= r[2]
        /\ \A i \in r[1]..r[2] : EmotionAt(q, i) = EmotionAt(q, r[1])
        /\ r[1] = 1 \/ EmotionAt(q, r[1] - 1) # EmotionAt(q, r[1])
        /\ r[2] = Len(q) \/ EmotionAt(q, r[2] + 1) # EmotionAt(q, r[1])}

\* the maximal runs of q of length 3 and more, in chronological order, as the
\* records of the report
LongRuns(q) ==
    LET long == {r \in MaximalRuns(q) : r[2] - r[1] + 1 >= 3}
        nth(k) == CHOOSE r \in long : Cardinality({s \in long : s[1] <= r[1]}) = k
    IN  [k \in 1..Cardinality(long) |->
            [emotion |-> EmotionAt(q, nth(k)[1]),
             length |-> nth(k)[2] - nth(k)[1] + 1,
             start_date |-> DateOf(q[nth(k)[1]].timestamp),
             end_date |-> DateOf(q[nth(k)[2]].timestamp)]]

\* the runs of a list are of 3 entries and more, follow one another and begin
\* no later than they end
WellFormedRuns(runs) ==
    /\ \A i \in 1..Len(runs) :
           /\ runs[i].length >= 3
           /\ runs[i].start_date <= runs[i].end_date
    /\ \A i \in 1..(Len(runs) - 1) : runs[i].end_date <= runs[i + 1].start_date

\* C20: the runs recorded are exactly the maximal runs of consecutive
\* qualifying entries of one dominant emotion that are 3 entries long or
\* longer, the run open at the last entry included; none is of length 1 or 2,
\* they do not overlap and each begins no later than it ends
C20_RecordedRunsAreMaximal ==
    CyclesComputed =>
        /\ report.streaks.recorded = LongRuns(AboveBar(CycleEntries))
        /\ WellFormedRuns(report.streaks.recorded)

----------------------------------------------------------------------------
(* The ranking of recorded runs: lines 201-205 of _detect_mood_streaks       *)
(* applied to a list of up to MaxRanked recorded runs of joy, sadness or      *)
(* neutral, each MinStreakLength entries long or one longer, the k-th run      *)
(* being of day k.                                                            *)

MaxRanked == 6

RankedEmotions == {"joy", "sadness", "neutral"}
RankedLengths == {MinStreakLength, MinStreakLength + 1}

\* the lists of recorded runs handed to the ranking
RankedLists ==
    UNION {[1..n -> RankedEmotions \X RankedLengths] : n \in 0..MaxRanked}

RecordedRuns(list) ==
    [k \in 1..Len(list) |->
        [emotion |-> list[k][1], length |-> list[k][2],
         start_date |-> k, end_date |-> k]]

RankingInit ==
    /\ now = 0
    /\ entries = <<>>
    /\ timeline = <<>>
    /\ mentions = NoMentions
    /\ project_rows = NoProjects
    /\ analytics_instance = NoEngine
    /\ temporal_intelligence = NoEngine
    /\ \E list \in RankedLists :
           report = [kind |-> "recorded", streaks |-> RecordedRuns(list)]

RankingReturn ==
    /\ report.kind = "recorded"
    /\ report' = [kind |-> "ranking", streaks |-> StreakReport(report.streaks)]
    /\ UNCHANGED <<now, entries, timeline, mentions, project_rows, engines>>

RankingNext == RankingReturn

SpecRanking == RankingInit /\ [][RankingNext]_vars

----------------------------------------------------------------------------
(* Claim C21: the notable and the longest runs *)

\* the runs of a list as a set
RunsOf(s) == {s[i] : i \in 1..Len(s)}

\* `longest` is a run of maximum length among the recorded runs with an
\* emotion of E, and is absent exactly when there is none
IsLongestOf(longest, recorded, E) ==
    LET mine == {r \in RunsOf(recorded) : r.emotion \in E} IN
    /\ (longest = <<>>) <=> (mine = {})
    /\ longest # <<>> =>
           /\ longest[1] \in mine
           /\ \A r \in mine : r.length <= longest[1].length

\* C21: notable_streaks holds at most 5 recorded runs, in non-increasing
\* length, and no recorded run left out is longer than one included;
\* longest_positive is a recorded run of maximum length among those of joy,
\* love or surprise, longest_negative among those of sadness, anger or fear,
\* and each is absent exactly when no recorded run has such an emotion
C21_NotableAndLongest ==
    report.kind = "ranking" =>
        LET recorded == report.streaks.recorded
            notable == report.streaks.notable_streaks
        IN  /\ Len(notable) <= 5
            /\ RunsOf(notable) \subseteq RunsOf(recorded)
            /\ Cardinality(RunsOf(notable)) = Len(notable)
            /\ \A i \in 1..(Len(notable) - 1) : notable[i].length >= notable[i + 1].length
            /\ \A out \in RunsOf(recorded) \ RunsOf(notable) :
                   \A r \in RunsOf(notable) : out.length <= r.length
            /\ IsLongestOf(report.streaks.longest_positive, recorded,
                           {"joy", "love", "surprise"})
            /\ IsLongestOf(report.streaks.longest_negative, recorded,
                           {"sadness", "anger", "fear"})

\* six runs recorded, five of them notable and a shorter one left out, with a
\* longest run of joy and none of a negative emotion
C21_Witness ==
    /\ report.kind = "ranking"
    /\ Len(report.streaks.recorded) = 6
    /\ Len(report.streaks.notable_streaks) = 5
    /\ \E out \in RunsOf(report.streaks.recorded) :
           /\ out \notin RunsOf(report.streaks.notable_streaks)
           /\ out.length < report.streaks.notable_streaks[1].length
    /\ report.streaks.longest_positive # <<>>
    /\ report.streaks.longest_negative = <<>>

----------------------------------------------------------------------------
(* Mood by time of day: TemporalIntelligence._analyze_time_of_day_patterns   *)
(* and _generate_time_insights, of entries given by the hour of their         *)
(* timestamp and their moods                                                  *)

AnxietyScore == 4
CalmScore == 4

TimedEntry(hour, moods) == [hour |-> hour, moods |-> moods]

\* the early end of the morning moved to 6am
PeriodLateMorning(hour) ==
    IF 6 <= hour /\ hour < 12 THEN "morning"
    ELSE IF 12 <= hour /\ hour < 17 THEN "afternoon"
    ELSE IF 17 <= hour /\ hour < 22 THEN "evening"
    ELSE "night"

\* lines 118-125
Period(hour) ==
    IF 5 <= hour /\ hour < 12 THEN "morning"
    ELSE IF 12 <= hour /\ hour < 17 THEN "afternoon"
    ELSE IF 17 <= hour /\ hour < 22 THEN "evening"
    ELSE "night"

\* the keys of time_emotions
Periods == {"morning", "afternoon", "evening", "night"}

\* the emotions of a dict of moods, and the score of one of them
EmotionsOf(moods) == {moods[m].emotion : m \in 1..Len(moods)}
ScoreOf(moods, emotion) ==
    moods[CHOOSE m \in 1..Len(moods) : moods[m].emotion = emotion].score

\* the sum of the scores of an emotion over the entries of the indices I
RECURSIVE ScoreTotal(_, _, _)
ScoreTotal(timed, I, emotion) ==
    IF I = {} THEN 0
    ELSE LET i == CHOOSE k \in I : TRUE
         IN  ScoreOf(timed[i].moods, emotion) + ScoreTotal(timed, I \ {i}, emotion)

\* lines 127-128: the indices of the entries whose score of the emotion was
\* appended to time_emotions[period][emotion]
TimeEmotions(timed, period, emotion) ==
    {i \in 1..Len(timed) :
        /\ Period(timed[i].hour) = period
        /\ emotion \in EmotionsOf(timed[i].moods)}

\* lines 131-138: np.mean of each list of scores, a period without an emotion
\* left out
TimeAverages(timed) ==
    LET emotions(period) ==
            UNION {EmotionsOf(timed[i].moods) :
                      i \in {k \in 1..Len(timed) : Period(timed[k].hour) = period}}
    IN  [period \in {p \in Periods : emotions(p) # {}} |->
            [emotion \in emotions(period) |->
                LET I == TimeEmotions(timed, period, emotion)
                IN  Ratio(ScoreTotal(timed, I, emotion), Cardinality(I))]]

\* dict.get(emotion, 0) of the averages of a period
AverageOr0(period_avg, emotion) ==
    IF emotion \in DOMAIN period_avg THEN period_avg[emotion] ELSE Ratio(0, 1)

\* _generate_time_insights
TimeInsights(time_averages) ==
    IF "morning" \in DOMAIN time_averages /\ "evening" \in DOMAIN time_averages
    THEN LET fear == AverageOr0(time_averages["morning"], "fear")
             sadness == AverageOr0(time_averages["morning"], "sadness")
             joy == AverageOr0(time_averages["evening"], "joy")
         IN  (IF fear.num * sadness.den + sadness.num * fear.den
                     > AnxietyScore * fear.den * sadness.den
              THEN <<"Morning anxiety detected - consider morning routines">>
              ELSE <<>>)
             \o (IF joy.num > CalmScore * joy.den
                 THEN <<"Evenings are your calm time">> ELSE <<>>)
    ELSE <<>>

\* the dict _analyze_time_of_day_patterns(entries) returns, with the period
\* it found for each entry
TimeOfDayPatterns(timed) ==
    [kind |-> "time_of_day",
     supplied |-> timed,
     period_of |-> [i \in 1..Len(timed) |-> Period(timed[i].hour)],
     averages |-> TimeAverages(timed),
     insights |-> TimeInsights(TimeAverages(timed))]

----------------------------------------------------------------------------
(* The time-of-day specification: the analysis is applied to every list of   *)
(* up to MaxTimed entries of any hour, joyful, mixed or without moods.        *)

MaxTimed == 2

Hours == 0..23

TimedMoods ==
    { <<Mood("joy", 5)>>,
      <<Mood("joy", 2), Mood("sadness", 3), Mood("fear", 2)>>,
      NoMoods }

TimedLists ==
    UNION {[1..n -> {TimedEntry(h, m) : h \in Hours, m \in TimedMoods}] :
              n \in 0..MaxTimed}

TimedInit ==
    /\ now = 0
    /\ entries = <<>>
    /\ timeline = <<>>
    /\ mentions = NoMentions
    /\ project_rows = NoProjects
    /\ analytics_instance = NoEngine
    /\ temporal_intelligence = NoEngine
    /\ report \in {[kind |-> "timed", supplied |-> s] : s \in TimedLists}

TimedReturn ==
    /\ report.kind = "timed"
    /\ report' = TimeOfDayPatterns(report.supplied)
    /\ UNCHANGED <<now, entries, timeline, mentions, project_rows, engines>>

TimedNext == TimedReturn

SpecTimeOfDay == TimedInit /\ [][TimedNext]_vars

----------------------------------------------------------------------------
(* Claim C22: the buckets of the day *)

\* the buckets whose hours, as the claim gives them, hold the hour h
BucketsOf(h) ==
    {b \in {"morning", "afternoon", "evening", "night"} :
        \/ b = "morning" /\ 5 <= h /\ h < 12
        \/ b = "afternoon" /\ 12 <= h /\ h < 17
        \/ b = "evening" /\ 17 <= h /\ h < 22
        \/ b = "night" /\ (h >= 22 \/ h < 5)}

\* C22: every entry is assigned to exactly one bucket by its hour h -- morning
\* for 5 <= h < 12, afternoon for 12 <= h < 17, evening for 17 <= h < 22,
\* night for h >= 22 or h < 5 --, each reported bucket average is the mean
\* over exactly the entries of that bucket, and a bucket with no data is
\* left out of the averages
C22_TimeOfDayBuckets ==
    report.kind = "time_of_day" =>
        LET timed == report.supplied
            members(b) == {i \in 1..Len(timed) : b \in BucketsOf(timed[i].hour)}
            data(b) == UNION {EmotionsOf(timed[i].moods) : i \in members(b)}
            having(b, e) == {i \in members(b) : e \in EmotionsOf(timed[i].moods)}
        IN  /\ \A i \in 1..Len(timed) :
                   BucketsOf(timed[i].hour) = {report.period_of[i]}
            /\ DOMAIN report.averages =
                   {b \in {"morning", "afternoon", "evening", "night"} : data(b) # {}}
            /\ \A b \in DOMAIN report.averages :
                   /\ DOMAIN report.averages[b] = data(b)
                   /\ \A e \in data(b) :
                          RatioEq(report.averages[b][e],
                                  Ratio(ScoreTotal(timed, having(b, e), e),
                                        Cardinality(having(b, e))))

\* an entry of 5am and one of 11am share the morning average of joy, 0.35,
\* and no other bucket is reported
C22_Witness ==
    /\ report.kind = "time_of_day"
    /\ Len(report.supplied) = 2
    /\ {report.supplied[1].hour, report.supplied[2].hour} = {5, 11}
    /\ DOMAIN report.averages = {"morning"}
    /\ RatioEq(report.averages["morning"]["joy"], Ratio(7, 2))

----------------------------------------------------------------------------
(* Volatility: TemporalIntelligence._find_volatile_emotions, of entries      *)
(* given by their moods. Scores are tenths, so a variance is in hundredths.   *)

MinSamples == 5
VolatileVariance == 8
TopVolatile == 3

\* lines 149-151: the scores of an emotion, in the order of the entries
EmotionScores(mood_list, emotion) ==
    LET with == SelectSeq(mood_list, LAMBDA moods : emotion \in EmotionsOf(moods))
    IN  [i \in 1..Len(with) |-> ScoreOf(with[i], emotion)]

\* np.mean(scores)
Mean(scores) == Ratio(SeqSum(scores), Len(scores))

\* np.var(scores): the mean of the squared deviations from the mean, each
\* deviation x - sum/n taken as (n * x - sum) / n
Variance(scores) ==
    LET n == Len(scores)
        sum == SeqSum(scores)
    IN  Ratio(SeqSum([i \in 1..n |-> (n * scores[i] - sum) * (n * scores[i] - sum)]),
              n * n * n)

\* a variance of exactly 0.08 taken for volatile as well
IsVolatileInclusive(variance) == variance.num >= VolatileVariance * variance.den

\* line 162: variance > 0.08
IsVolatile(variance) == variance.num > VolatileVariance * variance.den

\* lines 157-163
Volatility(emotion, scores) ==
    [emotion |-> emotion,
     variance |-> Variance(scores),
     mean |-> Mean(scores),
     stability |-> IF IsVolatile(Variance(scores)) THEN "volatile" ELSE "stable"]

\* sorted(volatility, key=-variance): a stable insertion sort
InsertByVariance(s, x) ==
    LET k == Cardinality({i \in 1..Len(s) : RatioGeq(s[i].variance, x.variance)})
    IN  SubSeq(s, 1, k) \o <<x>> \o SubSeq(s, k + 1, Len(s))

RECURSIVE SortedByVarianceUpTo(_, _)
SortedByVarianceUpTo(s, n) ==
    IF n = 0 THEN <<>> ELSE InsertByVariance(SortedByVarianceUpTo(s, n - 1), s[n])

\* the list _find_volatile_emotions(entries) returns
VolatileEmotions(mood_list) ==
    LET emotions == FirstSeen(Concat(mood_list))
        enough == SelectSeq(emotions,
                      LAMBDA e : Len(EmotionScores(mood_list, e)) >= MinSamples)
        volatility == [i \in 1..Len(enough) |->
                          Volatility(enough[i], EmotionScores(mood_list, enough[i]))]
        sorted == SortedByVarianceUpTo(volatility, Len(volatility))
    IN  SubSeq(sorted, 1, IF Len(sorted) < TopVolatile THEN Len(sorted) ELSE TopVolatile)

----------------------------------------------------------------------------
(* The volatility specification: the analysis is applied to every list of up *)
(* to MaxVolatileEntries entries, each of one of six dicts of moods.          *)

MaxVolatileEntries == 5

\* joy rising from 0.1 to 0.9, sadness steady, fear swinging, anger wavering;
\* an entry of joy alone
VolatileMoods ==
    { <<Mood("joy", 1), Mood("sadness", 5), Mood("fear", 0), Mood("anger", 4)>>,
      <<Mood("joy", 3), Mood("sadness", 5), Mood("fear", 10), Mood("anger", 6)>>,
      <<Mood("joy", 5), Mood("sadness", 5), Mood("fear", 0), Mood("anger", 4)>>,
      <<Mood("joy", 7), Mood("sadness", 5), Mood("fear", 10), Mood("anger", 6)>>,
      <<Mood("joy", 9), Mood("sadness", 5), Mood("fear", 5), Mood("anger", 5)>>,
      <<Mood("joy", 5)>> }

VolatileLists == UNION {[1..n -> VolatileMoods] : n \in 0..MaxVolatileEntries}

VolatileInit ==
    /\ now = 0
    /\ entries = <<>>
    /\ timeline = <<>>
    /\ mentions = NoMentions
    /\ project_rows = NoProjects
    /\ analytics_instance = NoEngine
    /\ temporal_intelligence = NoEngine
    /\ report \in {[kind |-> "moods", supplied |-> s] : s \in VolatileLists}

VolatileReturn ==
    /\ report.kind = "moods"
    /\ report' = [kind |-> "volatile", supplied |-> report.supplied,
                  volatile_emotions |-> VolatileEmotions(report.supplied)]
    /\ UNCHANGED <<now, entries, timeline, mentions, project_rows, engines>>

VolatileNext == VolatileReturn

SpecVolatile == VolatileInit /\ [][VolatileNext]_vars

----------------------------------------------------------------------------
(* Claim C23: the most volatile emotions *)

\* the population variance of the scores of emotion e in the list, in
\* hundredths: (n * sum of squares - square of the sum) / n^2
PopulationVariance(mood_list, e) ==
    LET scores == EmotionScores(mood_list, e)
        n == Len(scores)
    IN  Ratio(n * SeqSum([i \in 1..n |-> scores[i] * scores[i]])
                  - SeqSum(scores) * SeqSum(scores),
              n * n)

\* C23: the list returned holds at most 3 emotions, each of 5 samples or
\* more, ordered by population variance descending, and no emotion of 5
\* samples or more that is left out has a larger variance than one included;
\* each is labelled 'volatile' exactly when its variance > 0.08 and 'stable'
\* otherwise
C23_TopVolatileEmotions ==
    report.kind = "volatile" =>
        LET listed == report.volatile_emotions
            samples(e) == Len(EmotionScores(report.supplied, e))
            eligible == {e \in UNION {EmotionsOf(report.supplied[i]) :
                                         i \in 1..Len(report.supplied)} :
                            samples(e) >= 5}
            included == {listed[i].emotion : i \in 1..Len(listed)}
        IN  /\ Len(listed) <= 3
            /\ Cardinality(included) = Len(listed)
            /\ included \subseteq eligible
            /\ Cardinality(eligible) >= 3 => Len(listed) = 3
            /\ Cardinality(eligible) < 3 => included = eligible
            /\ \A i \in 1..Len(listed) :
                   /\ RatioEq(listed[i].variance,
                              PopulationVariance(report.supplied, listed[i].emotion))
                   /\ listed[i].stability \in {"volatile", "stable"}
                   /\ listed[i].stability = "volatile" <=>
                          PopulationVariance(report.supplied, listed[i].emotion).num
                              > 8 * PopulationVariance(report.supplied, listed[i].emotion).den
            /\ \A i \in 1..(Len(listed) - 1) :
                   RatioGeq(listed[i].variance, listed[i + 1].variance)
            /\ \A e \in eligible \ included :
                   \A i \in 1..Len(listed) :
                       RatioGeq(listed[i].variance,
                                PopulationVariance(report.supplied, e))

\* four emotions of five samples each: fear (variance 0.2) is volatile, joy
\* at a variance of exactly 0.08 and anger are stable, and steady sadness is
\* left out
C23_Witness ==
    /\ report.kind = "volatile"
    /\ Len(report.volatile_emotions) = 3
    /\ report.volatile_emotions[1].emotion = "fear"
    /\ report.volatile_emotions[1].stability = "volatile"
    /\ report.volatile_emotions[2].emotion = "joy"
    /\ RatioEq(report.volatile_emotions[2].variance, Ratio(8, 1))
    /\ report.volatile_emotions[2].stability = "stable"
    /\ report.volatile_emotions[3].emotion = "anger"
    /\ Len(EmotionScores(report.supplied, "sadness")) = 5

----------------------------------------------------------------------------
(* Claim C24: days_active is at least 1 *)

\* C24: for every project with >= 2 mentions, days_active = max(1, whole days
\* between the first and the last mention), so days_active >= 1 also when
\* all mentions fall on one day, and frequency = mention_count / days_active
\* has a divisor of 1 or more
C24_DaysActiveAtLeastOne ==
    MomentumCalculated =>
        LET m == report.momentum
            W == report.entries
        IN  /\ m.days_active = WholeDaysActive(W)
            /\ m.days_active >= 1
            /\ m.mention_count = Len(W)
            /\ m.frequency = <<m.mention_count, m.days_active>>

\* two mentions of one day: days_active is 1 and the frequency 2 / 1
C24_Witness ==
    /\ MomentumCalculated
    /\ Len(report.entries) = 2
    /\ DateOf(report.entries[1]) = DateOf(report.entries[2])
    /\ report.momentum.days_active = 1
    /\ report.momentum.frequency = <<2, 1>>

----------------------------------------------------------------------------
(* The week specification: from the empty diary, plain entries are written   *)
(* one to a day on the days up to the day after WeekToday, and the writing    *)
(* streak and the productivity score are requested on day WeekToday.          *)

WeekToday == 9

WeekDates == 0..(WeekToday + 1)

WeekInit ==
    /\ now = Days(WeekToday)
    /\ entries = <<>>
    /\ timeline = <<>>
    /\ mentions = NoMentions
    /\ project_rows = NoProjects
    /\ analytics_instance = NoEngine
    /\ temporal_intelligence = NoEngine
    /\ report = NoReport

WeekWrite ==
    \E date \in WeekDates :
        /\ \A i \in 1..Len(entries) : DateOf(entries[i].timestamp) # date
        /\ AddEntry(Days(date), NoMoods, <<>>)

WeekNext == WeekWrite \/ GetWritingStreak \/ GetCreativeProductivityScore

SpecWeek == WeekInit /\ [][WeekNext]_vars

----------------------------------------------------------------------------
(* Claim C25: a streak shows in the 7-day count *)

\* C25: for every non-empty history and every today the 7-day count of
\* get_writing_streak is at least min(current_streak, 7); hence in the
\* productivity score a consistency factor of 30 comes with a volume factor
\* of 30, and a consistency factor of 10 or more with a volume factor of 10
\* or more
C25_StreakWithinWeekCount ==
    /\ (report.kind = "streak" /\ report.total_entries > 0) =>
           report.entries_this_week >=
               (IF report.current_streak < 7 THEN report.current_streak ELSE 7)
    /\ (report.kind = "score" /\ report.outcome = "returned") =>
           /\ report.factors.consistency = 30 => report.factors.volume = 30
           /\ report.factors.consistency >= 10 => report.factors.volume >= 10

\* a streak of the seven days before today, none of today: the 7-day count is
\* 7 and both factors are 30
C25_Witness ==
    /\ report.kind = "score"
    /\ report.outcome = "returned"
    /\ StoreDates = (DateOf(now) - 7)..(DateOf(now) - 1)
    /\ report.factors.consistency = 30
    /\ report.factors.volume = 30

----------------------------------------------------------------------------
(* Claim C27: recent and older mentions *)

\* C27: within one calculation no mention is counted both in recent_mentions
\* and in older_mentions, so that recent_mentions + older_mentions <=
\* mention_count, also when the clock advances between the datetime.now()
\* reads of the calculation
C27_RecentAndOlderDisjoint ==
    MomentumCalculated =>
        /\ report.recent_mentions \cap report.older_mentions = {}
        /\ Cardinality(report.recent_mentions) + Cardinality(report.older_mentions)
               <= report.momentum.mention_count


----------------------------------------------------------------------------
(* Claim C28: the three lists of a momentum report *)

\* the project names of a list of momentum dicts
NamesOf(data) == {data[i].project_name : i \in DOMAIN data}

\* C28: in a 'success' report of track_project_momentum the lists stalled,
\* accelerating and consistent are pairwise disjoint and total_projects is
\* the sum of their lengths
C28_ListsPartitionTotal ==
    (report.kind = "momentum" /\ report.status = "success") =>
        /\ NamesOf(report.stalled) \cap NamesOf(report.accelerating) = {}
        /\ NamesOf(report.stalled) \cap NamesOf(report.consistent) = {}
        /\ NamesOf(report.accelerating) \cap NamesOf(report.consistent) = {}
        /\ report.total_projects =
               Len(report.stalled) + Len(report.accelerating)
                   + Len(report.consistent)

----------------------------------------------------------------------------
(* Claim C30: the mentions joined to a project *)

\* C30: after any sequence of link_project_to_entry calls the number of
\* mentions joined to a project equals the number of link calls made for its
\* name, also when the project existed before the call
C30_MentionsMatchLinkCalls ==
    \A p \in DOMAIN project_rows :
        Len(mentions[p]) = project_rows[p].link_calls


----------------------------------------------------------------------------
(* The engine singletons: get_analytics(db) and get_temporal_intelligence(db) *)
(* are called with any of NumStores stores, in any order.                     *)

NumStores == 4

\* the DiaryDatabase objects of the process
Stores == 1..NumStores

\* DeepAnalytics(db) and TemporalIntelligence(db): __init__ keeps self.db = db,
\* the store every request of the engine reads
Engine(db) == [db |-> db]

\* lines 316-318 of analytics.py and 569-571 of temporal_intelligence.py: the
\* global after the call, a new engine of db only when the global is None
InstanceAfter(instance, db) ==
    IF instance = NoEngine THEN <<Engine(db)>> ELSE instance

\* what a report records of a call: the function called, the store passed and
\* the engine returned
EngineReturned(factory, db, instance) ==
    [kind |-> "engine", factory |-> factory, db |-> db, engine |-> instance[1]]

SingletonInit ==
    /\ now = 0
    /\ entries = <<>>
    /\ timeline = <<>>
    /\ mentions = NoMentions
    /\ project_rows = NoProjects
    /\ analytics_instance = NoEngine
    /\ temporal_intelligence = NoEngine
    /\ report = NoReport

\* get_analytics(db)
GetAnalytics ==
    \E db \in Stores :
        /\ analytics_instance' = InstanceAfter(analytics_instance, db)
        /\ report' = EngineReturned("get_analytics", db, analytics_instance')
        /\ UNCHANGED <<now, entries, timeline, mentions, project_rows,
                       temporal_intelligence>>

\* get_temporal_intelligence(db)
GetTemporalIntelligence ==
    \E db \in Stores :
        /\ temporal_intelligence' = InstanceAfter(temporal_intelligence, db)
        /\ report' = EngineReturned("get_temporal_intelligence", db,
                                    temporal_intelligence')
        /\ UNCHANGED <<now, entries, timeline, mentions, project_rows,
                       analytics_instance>>

SingletonNext == GetAnalytics \/ GetTemporalIntelligence

SpecSingleton == SingletonInit /\ [][SingletonNext]_vars

----------------------------------------------------------------------------
(* Claim C29: the engine of a call reads the store of the call *)

\* C29: after any sequence of get_analytics(db) and
\* get_temporal_intelligence(db) calls the engine a call returns reads from
\* the store passed to that call, never from the store of an earlier call
C29_EngineBoundToPassedStore ==
    report.kind = "engine" => report.engine.db = report.db


----------------------------------------------------------------------------
(* Claim C26: the range of the productivity score *)

\* C26: whenever get_creative_productivity_score returns, 15 <= score <= 100
\* = max_score, and the level is Resting Phase only when score = 15: the
\* streak is 0, no entry is dated in the trailing week, the dominant emotion
\* of the week is absent or not positive, and no project is active
C26_ScoreRange ==
    (report.kind = "score" /\ report.outcome = "returned") =>
        /\ report.score \in 15..100
        /\ report.max_score = 100
        /\ report.level = "Resting Phase" =>
               /\ report.score = 15
               /\ report.factors =
                      [consistency |-> 0, volume |-> 0, mood |-> 10, projects |-> 5]
               /\ RunToday = 0
               /\ WeekEntryCount = 0
               /\ WeekDominants \cap {"joy", "love", "excitement", "calm"} = {}
               /\ WeekProjects = {}

\* a store with a joyful entry and an entry mentioning a project, all older
\* than the trailing week, is scored 15 and Resting Phase
C26_Witness ==
    /\ report.kind = "score"
    /\ report.outcome = "returned"
    /\ report.score = 15
    /\ report.level = "Resting Phase"
    /\ timeline # <<>>
    /\ DOMAIN project_rows # {}

====
